---------------------------- MODULE Spec2Model ----------------------------
(***************************************************************************)
(* The propagator of src/propagators/mod.rs: a Runge-Kutta integrator with *)
(* fixed or adaptive step (derive), the time-bounded propagation loop      *)
(* (until_time_elapsed) and the optional output channel.                   *)
(*                                                                         *)
(* f64 values are modelled as exact rationals <<n, d>> in lowest terms     *)
(* with d > 0, extended with the IEEE-754 special values the code can      *)
(* produce: <<1, 0>> is +inf, <<-1, 0>> is -inf and <<0, 0>> is NaN.       *)
(***************************************************************************)
EXTENDS Integers, Sequences, FiniteSets, TLC

\* ------------------------------------------------------------------ bounds
MaxCalls == 2      \* calls of until_time_elapsed / derive made by the caller
MaxLog == 3        \* states published within one until_time_elapsed call
MaxDen == 200      \* largest denominator of a step size the model follows
MaxEstimates == 3  \* error estimates E::estimate returns in one behaviour
MaxAttempts == 3   \* stands for PropOpts.attempts of an adaptive configuration
MaxDegree == 2     \* largest max_degree of a stored gravity field
Resolution == 4096 \* Harmonics::eom computes in multiples of 1 / Resolution

\* ------------------------------------------------------- f64 as a rational
Abs(i) == IF i < 0 THEN -i ELSE i
Sign(i) == IF i < 0 THEN -1 ELSE IF i > 0 THEN 1 ELSE 0

RECURSIVE GCD(_, _)
GCD(a, b) == IF b = 0 THEN a ELSE GCD(b, a % b)

Norm(n, d) ==
    IF d = 0 THEN <<Sign(n), 0>>
    ELSE LET s == IF d < 0 THEN -1 ELSE 1
             g == GCD(Abs(n), Abs(d))
         IN  <<(s * n) \div g, Abs(d) \div g>>

Zero == <<0, 1>>
One == <<1, 1>>
Inf == <<1, 0>>
NaN == <<0, 0>>
Int2F(i) == <<i, 1>>

IsNaN(x) == x = NaN
IsFinite(x) == x[2] # 0

Neg(x) == <<-x[1], x[2]>>

Add(x, y) ==
    IF IsNaN(x) \/ IsNaN(y) THEN NaN
    ELSE IF x[2] = 0 /\ y[2] = 0 THEN (IF x[1] = y[1] THEN x ELSE NaN)
    ELSE IF x[2] = 0 THEN x
    ELSE IF y[2] = 0 THEN y
    ELSE LET g == GCD(x[2], y[2])
         IN  Norm(x[1] * (y[2] \div g) + y[1] * (x[2] \div g), (x[2] \div g) * y[2])

Sub(x, y) == Add(x, Neg(y))

Mul(x, y) ==
    IF x[2] = 0 \/ y[2] = 0 THEN <<Sign(x[1]) * Sign(y[1]), 0>>
    ELSE LET g1 == GCD(Abs(x[1]), y[2])
             g2 == GCD(Abs(y[1]), x[2])
         IN  Norm((x[1] \div g1) * (y[1] \div g2), (x[2] \div g2) * (y[2] \div g1))

Recip(x) ==
    IF x[1] = 0 THEN (IF x[2] = 0 THEN NaN ELSE Inf)
    ELSE IF x[2] = 0 THEN Zero
    ELSE IF x[1] > 0 THEN <<x[2], x[1]>> ELSE <<-x[2], -x[1]>>

Div(x, y) == Mul(x, Recip(y))

Lt(x, y) ==
    IF IsNaN(x) \/ IsNaN(y) THEN FALSE
    ELSE IF x[2] = 0 /\ y[2] = 0 THEN x[1] < y[1]
    ELSE IF x[2] = 0 THEN x[1] < 0
    ELSE IF y[2] = 0 THEN y[1] > 0
    ELSE LET g == GCD(x[2], y[2])
         IN  x[1] * (y[2] \div g) < y[1] * (x[2] \div g)

Le(x, y) == ~IsNaN(x) /\ ~IsNaN(y) /\ (x = y \/ Lt(x, y))
Gt(x, y) == Lt(y, x)
Ge(x, y) == Le(y, x)

FAbs(x) == <<Abs(x[1]), x[2]>>

RECURSIVE IPow(_, _)
IPow(b, n) == IF n = 0 THEN 1 ELSE b * IPow(b, n - 1)

\* the exact n-th root of a natural that is a perfect n-th power
IRoot(p, n) == CHOOSE r \in 0..p : IPow(r, n) = p

\* f64::powf(x, e) for the exponents the code uses, e = 1/n (n >= 1) or
\* e = +inf (1.0 / 0.0), on x >= 0
Powf(x, e) ==
    IF IsNaN(x) \/ IsNaN(e) THEN NaN
    ELSE IF Lt(x, Zero) THEN NaN
    ELSE IF e = Inf THEN (IF Lt(x, One) THEN Zero ELSE IF x = One THEN One ELSE Inf)
    ELSE IF x = Inf THEN Inf
    ELSE <<IRoot(x[1], e[2]), IRoot(x[2], e[2])>>


\* ------------------------------------------------ Butcher tableaus (RK trait)
F(n, d) == Norm(n, d)

\* a fixed-step method (Ralston's second order method): stages == order
RK2Fixed ==
    [order |-> 2, stages |-> 2,
     a_coeffs |-> <<F(2, 3)>>,
     b_coeffs |-> <<F(1, 4), F(3, 4)>>]

\* an embedded pair (Fehlberg 1(2)): stages /= order, two rows of b
Fehlberg12 ==
    [order |-> 2, stages |-> 3,
     a_coeffs |-> <<F(1, 2), F(1, 256), F(255, 256)>>,
     b_coeffs |-> <<F(1, 512), F(255, 256), F(1, 512),
                    F(1, 256), F(255, 256), Zero>>]

Tableaus == {RK2Fixed, Fehlberg12}

\* ------------------------------------------------------------------ PropOpts
with_fixed_step(step) ==
    [init_step |-> step, min_step |-> step, max_step |-> step,
     tolerance |-> Zero, fixed_step |-> TRUE, attempts |-> 0]

with_adaptive_step(min_step, max_step, tolerance) ==
    [init_step |-> max_step, min_step |-> min_step, max_step |-> max_step,
     tolerance |-> tolerance, attempts |-> MaxAttempts, fixed_step |-> FALSE]

\* PropOpts::default(); the tolerance 1e-12 is below the smallest number
\* the model holds and 1e-9 stands for it
default ==
    [init_step |-> Int2F(60), min_step |-> F(1, 1000),
     max_step |-> Int2F(2700), tolerance |-> F(1, 1000000000),
     attempts |-> MaxAttempts, fixed_step |-> FALSE]

\* the configurations the caller builds the propagator with
Options ==
    {with_fixed_step(Int2F(2)),
     with_adaptive_step(F(1, 4), Int2F(2), One)}

\* values E::estimate returns (the error controller is a type parameter)
ErrValues ==
    {Zero, F(100, 121), One, F(9, 5), Int2F(4)}

\* elapsed times the caller asks for
ElapsedTimes == {Int2F(-4), Int2F(-3), Zero, Int2F(3), Int2F(4)}

\* ---------------------------------------------------------------- Dynamics
\* the dynamics integrated here: dx/dt = 1, whatever the time and the state
eom(delta_t, state_vec) == One

set_state(d, t, state) == [d EXCEPT !.time = t, !.state = state]

\* a variant of new that takes the mode from the options, not the tableau
newByOptions(T, opts) ==
    [opts |-> opts,
     details |-> [step |-> Zero, error |-> Zero, attempts |-> 1],
     step_size |-> opts.init_step,
     stages |-> T.stages,
     order |-> T.order,
     a_coeffs |-> T.a_coeffs,
     b_coeffs |-> T.b_coeffs,
     fixed_step |-> opts.fixed_step]

\* ---------------------------------------------------------------- Propagator
new(T, opts) ==
    [opts |-> opts,
     details |-> [step |-> Zero, error |-> Zero, attempts |-> 1],
     step_size |-> opts.init_step,
     stages |-> T.stages,
     order |-> T.order,
     a_coeffs |-> T.a_coeffs,
     b_coeffs |-> T.b_coeffs,
     fixed_step |-> (T.stages = T.order)]

set_fixed_step(p, step_size) ==
    [p EXCEPT !.step_size = step_size, !.fixed_step = TRUE]

\* a variant of the inner loop that indexes the coefficients by j alone
RECURSIVE RowSumFromZero(_, _, _, _, _, _)
RowSumFromZero(a, k, j, a_idx, ci, wi) ==
    IF j > Len(k) THEN [ci |-> ci, wi |-> wi, a_idx |-> a_idx, read |-> <<>>]
    ELSE [RowSumFromZero(a, k, j + 1, a_idx + 1,
                         Add(ci, a[j]), Add(wi, Mul(a[j], k[j])))
            EXCEPT !.read = <<j - 1>> \o @]

\* the inner loop of a stage: c_i and w_i from the next Len(k) coefficients;
\* read lists the indices of a_coeffs the loop read, in order
RECURSIVE RowSum(_, _, _, _, _, _)
RowSum(a, k, j, a_idx, ci, wi) ==
    IF j > Len(k) THEN [ci |-> ci, wi |-> wi, a_idx |-> a_idx, read |-> <<>>]
    ELSE [RowSum(a, k, j + 1, a_idx + 1,
                 Add(ci, a[a_idx + 1]),
                 Add(wi, Mul(a[a_idx + 1], k[j])))
            EXCEPT !.read = <<a_idx>> \o @]

\* the stage loop: iterations i .. stages - 2 of `for _ in 0..(stages - 1)`;
\* calls lists, for each evaluation of the dynamics the loop made, the
\* coefficients read for it, their sum and the time it was made at
RECURSIVE StageLoop(_, _, _, _, _, _)
StageLoop(p, t, state, k, a_idx, i) ==
    IF i >= p.stages - 1 THEN [k |-> k, a_idx |-> a_idx, calls |-> <<>>]
    ELSE LET r == RowSum(p.a_coeffs, k, 1, a_idx, Zero, Zero)
             ki == eom(Add(t, Mul(r.ci, p.step_size)),
                       Add(state, Mul(p.step_size, r.wi)))
         IN  [StageLoop(p, t, state, Append(k, ki), r.a_idx, i + 1)
                EXCEPT !.calls =
                    <<[read |-> r.read, ci |-> r.ci,
                       t |-> Add(t, Mul(r.ci, p.step_size))]>> \o @]

\* next_state += step_size * b_i * k_i over the stages i .. Len(k)
RECURSIVE NextState(_, _, _, _)
NextState(p, k, i, acc) ==
    IF i > Len(k) THEN acc
    ELSE NextState(p, k, i + 1,
                   Add(acc, Mul(Mul(p.step_size, p.b_coeffs[i]), k[i])))

\* a variant of the commit condition that looks at the error only
AcceptsWithinTolerance(p) == Le(p.details.error, p.opts.tolerance)

\* variants of the commit condition, which the properties of derive must
\* tell from it: one that ignores the smallest step, one that never gives up
AcceptsIgnoringMinStep(p) ==
    \/ Le(p.details.error, p.opts.tolerance)
    \/ p.details.attempts >= p.opts.attempts

AcceptsWithoutExhaustion(p) ==
    \/ Le(p.details.error, p.opts.tolerance)
    \/ Le(p.step_size, p.opts.min_step)

\* the commit condition of an adaptive attempt
Accepts(p) ==
    \/ Le(p.details.error, p.opts.tolerance)
    \/ Le(p.step_size, p.opts.min_step)
    \/ p.details.attempts >= p.opts.attempts

\* a variant of the proposed step with the ratio error / tolerance
GrowStepInverted(p) ==
    LET proposed_step ==
            Mul(Mul(F(9, 10), p.step_size),
                Powf(Div(p.details.error, p.opts.tolerance),
                     Div(One, Int2F(p.order))))
    IN  IF Gt(proposed_step, p.opts.max_step) THEN p.opts.max_step
        ELSE proposed_step

\* the step proposed for the next call when the error is below the tolerance
GrowStep(p) ==
    LET proposed_step ==
            Mul(Mul(F(9, 10), p.step_size),
                Powf(Div(p.opts.tolerance, p.details.error),
                     Div(One, Int2F(p.order))))
    IN  IF Gt(proposed_step, p.opts.max_step) THEN p.opts.max_step
        ELSE proposed_step

\* a variant of the step after a rejection that is not held at min_step
ShrinkStepUnclamped(p) ==
    Mul(Mul(F(9, 10), p.step_size),
        Powf(Div(p.opts.tolerance, p.details.error),
             Div(One, Int2F(p.order - 1))))

\* the step of the next attempt after a rejection
ShrinkStep(p) ==
    LET proposed_step ==
            Mul(Mul(F(9, 10), p.step_size),
                Powf(Div(p.opts.tolerance, p.details.error),
                     Div(One, Int2F(p.order - 1))))
    IN  IF Lt(proposed_step, p.opts.min_step) THEN p.opts.min_step
        ELSE proposed_step

\* the end of a pass of the loop of derive, once the stages are computed:
\* the next state, then commit or retry
CommitOrRetry(p, t, state, err, stages) ==
    LET next_state == NextState(p, stages.k, 1, state)
    IN  IF p.fixed_step
        THEN LET p1 == [p EXCEPT !.details.step = p.step_size]
             IN  [prop |-> p1, done |-> TRUE, stages |-> stages,
                  t |-> Add(t, p1.details.step), state |-> next_state]
        ELSE LET p1 == [p EXCEPT !.details.error = err]
             IN  IF Accepts(p1)
                 THEN LET p2 == [p1 EXCEPT !.details.step = p1.step_size]
                          p3 == IF Lt(p2.details.error, p2.opts.tolerance)
                                THEN [p2 EXCEPT !.step_size = GrowStep(p2)]
                                ELSE p2
                      IN  [prop |-> p3, done |-> TRUE, stages |-> stages,
                           t |-> Add(t, p2.details.step), state |-> next_state]
                 ELSE [prop |-> [p1 EXCEPT !.details.attempts = @ + 1,
                                           !.step_size = ShrinkStep(p1)],
                       done |-> FALSE, stages |-> stages,
                       t |-> t, state |-> state]

\* one pass of the loop of derive: the stages, then commit or retry.
\* err is the value E::estimate returns for this attempt.
DeriveAttempt(p, t, state, err) ==
    CommitOrRetry(p, t, state, err,
                  StageLoop(p, t, state, <<eom(t, state)>>, 0, 0))

\* entry of derive: the attempt counter restarts
DeriveEntry(p) == [p EXCEPT !.details.attempts = 1]


\* ------------------------------------------------------------------- state
VARIABLES
    prop,        \* the Propagator: opts, details, step_size, tableau, fixed_step
    tx_chan,     \* Propagator.tx_chan is Some(sender)
    dynamics,    \* the time and the state the dynamics hold
    chan,        \* the channel: the messages delivered, the receiver alive
    pc,          \* "idle", "derive" (in the loop of derive), "derived"
    call,        \* the locals of the running until_time_elapsed or derive
    set_log,     \* the (t, state) pairs passed to set_state in this call
    sent_log,    \* the (t, state) pairs passed to chan.send in this call
    ret,         \* what the last finished call returned
    last,        \* the last pass of the loop of derive: inputs and decision
    ncalls,      \* calls made so far
    nestimates,  \* error estimates computed so far
    ref,         \* the same propagation, same inputs, run without a sink
    input,       \* the arguments of a function called on its own
    output,      \* what that function returned
    threads      \* the producer and the consumer thread of the channel

vars == <<prop, tx_chan, dynamics, chan, pc, call, set_log, sent_log, ret,
          last, ncalls, nestimates, ref, input, output, threads>>

\* no function has been called on its own
NoInput == [fn |-> "none"]
NoOutput == [fn |-> "none"]

\* the propagator and its consumer are not run as two threads
NoThreads == [producer |-> "none", consumer |-> "none", received |-> <<>>]

NoCall ==
    [op |-> "none", landing |-> FALSE, backprop |-> FALSE,
     elapsed_time |-> Zero, init_seconds |-> Zero, stop_time |-> Zero,
     dt |-> Zero, dx |-> Zero, t |-> Zero, state |-> Zero,
     entry_step |-> Zero, entry_fixed |-> FALSE,
     pre_step |-> Zero, pre_fixed |-> FALSE, tries |-> 0]

NoAttempt ==
    [op |-> "none", landing |-> FALSE, fixed |-> FALSE, h |-> Zero,
     err |-> Zero, attempts |-> 0, committed |-> FALSE, next_step |-> Zero,
     t_in |-> Zero, t_out |-> Zero, eom_ok |-> TRUE]

NoRet == [op |-> "none", t |-> Zero, state |-> Zero]

\* a propagator with its dynamics, between or inside calls
Machine(p, d, c, cl, slog, r) ==
    [prop |-> p, dynamics |-> d, pc |-> c, call |-> cl, set_log |-> slog,
     ret |-> r]

Cur == Machine(prop, dynamics, pc, call, set_log, ret)

\* chan.send(msg): fails when the receiver is gone, enqueues otherwise; the
\* caller logs the failure (warn!)
send(c, msg) ==
    IF c.rx_alive THEN [c EXCEPT !.queue = Append(@, msg)]
    ELSE [c EXCEPT !.warned = TRUE]

\* a variant in which a failed send keeps the state from being set
PublishUnlessSendFails(tx, d, c, slog, tlog, t, state) ==
    IF tx /\ ~c.rx_alive
    THEN [dynamics |-> d, set_log |-> slog,
          sent_log |-> Append(tlog, <<t, state>>),
          chan |-> send(c, <<t, state>>)]
    ELSE [dynamics |-> set_state(d, t, state),
          set_log |-> Append(slog, <<t, state>>),
          sent_log |-> IF tx THEN Append(tlog, <<t, state>>) ELSE tlog,
          chan |-> IF tx THEN send(c, <<t, state>>) ELSE c]

\* a variant of Publish that sets the state on the dynamics and sends nothing
PublishToDynamicsOnly(tx, d, c, slog, tlog, t, state) ==
    [dynamics |-> set_state(d, t, state),
     set_log |-> Append(slog, <<t, state>>),
     sent_log |-> tlog,
     chan |-> c]

\* set_state then, with a sink, send; a failed send is only logged
Publish(tx, d, c, slog, tlog, t, state) ==
    [dynamics |-> set_state(d, t, state),
     set_log |-> Append(slog, <<t, state>>),
     sent_log |-> IF tx THEN Append(tlog, <<t, state>>) ELSE tlog,
     chan |-> IF tx THEN send(c, <<t, state>>) ELSE c]

\* the step of the landing derive: the last step less the overshoot
LandingStep(details, overshot) == Sub(details.step, overshot)

\* the time based stopping condition has not been passed
NotPassed(t, stop_time, backprop) ==
    \/ (Lt(t, stop_time) /\ ~backprop)
    \/ (Ge(t, stop_time) /\ backprop)

Overshot(overshot, backprop) ==
    \/ (~backprop /\ Gt(overshot, Zero))
    \/ (backprop /\ Lt(overshot, Zero))

\* until_time_elapsed, entry: the direction, the stop time, the first derive
UntilEntry(m, elapsed_time) ==
    LET backprop == Lt(elapsed_time, Zero)
        p1 == IF backprop
              THEN [m.prop EXCEPT !.step_size = Mul(@, Int2F(-1))]
              ELSE m.prop
        init_seconds == m.dynamics.time
    IN  [m EXCEPT
           !.prop = DeriveEntry(p1),
           !.pc = "derive",
           !.set_log = <<>>,
           !.ret = NoRet,
           !.call = [NoCall EXCEPT
                       !.op = "until", !.backprop = backprop,
                       !.elapsed_time = elapsed_time,
                       !.init_seconds = init_seconds,
                       !.stop_time = Add(init_seconds, elapsed_time),
                       !.dt = m.dynamics.time, !.dx = m.dynamics.state,
                       !.entry_step = m.prop.step_size,
                       !.entry_fixed = m.prop.fixed_step]]

\* derive(t, state) called by the user on the time and state of the dynamics
CallDerive(m) ==
    [m EXCEPT
       !.prop = DeriveEntry(m.prop),
       !.pc = "derive",
       !.set_log = <<>>,
       !.ret = NoRet,
       !.call = [NoCall EXCEPT
                   !.op = "derive",
                   !.dt = m.dynamics.time, !.dx = m.dynamics.state,
                   !.entry_step = m.prop.step_size,
                   !.entry_fixed = m.prop.fixed_step]]

\* one pass of the loop of derive and, when it commits, the return of derive
AfterAttempt(m, err) ==
    LET r == DeriveAttempt(m.prop, m.call.dt, m.call.dx, err)
    IN  [m EXCEPT
           !.prop = r.prop,
           !.call = [m.call EXCEPT !.t = r.t, !.state = r.state,
                                   !.tries = @ + 1],
           !.pc = IF ~r.done THEN "derive"
                  ELSE IF m.call.op = "derive" THEN "idle" ELSE "derived",
           !.ret = IF r.done /\ m.call.op = "derive"
                   THEN [op |-> "derive", t |-> r.t, state |-> r.state]
                   ELSE m.ret]

\* a variant of AfterDerive that publishes the candidate that overshoots
\* the stop time before it lands on it
AfterDerivePublishingOvershoot(m, tx, c, tlog) ==
    LET cl == m.call
        p == m.prop
        pub == Publish(tx, m.dynamics, c, m.set_log, tlog, cl.t, cl.state)
        overshot == Sub(cl.t, cl.stop_time)
        published == [m EXCEPT !.dynamics = pub.dynamics,
                               !.set_log = pub.set_log]
        returned == [published EXCEPT
                       !.pc = "idle",
                       !.ret = [op |-> "until", t |-> cl.t, state |-> cl.state]]
    IN  IF cl.landing
        THEN [m |-> returned, chan |-> pub.chan, sent_log |-> pub.sent_log]
        ELSE IF NotPassed(cl.t, cl.stop_time, cl.backprop)
        THEN [m |-> [published EXCEPT
                       !.prop = DeriveEntry(p),
                       !.pc = "derive",
                       !.call = [cl EXCEPT !.dt = pub.dynamics.time,
                                           !.dx = pub.dynamics.state,
                                           !.tries = 0]],
              chan |-> pub.chan, sent_log |-> pub.sent_log]
        ELSE IF Overshot(overshot, cl.backprop)
        THEN [m |-> [published EXCEPT
                       !.prop = DeriveEntry(
                                  set_fixed_step(p, LandingStep(p.details, overshot))),
                       !.pc = "derive",
                       !.call = [cl EXCEPT !.landing = TRUE,
                                           !.dt = m.dynamics.time,
                                           !.dx = m.dynamics.state,
                                           !.pre_step = p.step_size,
                                           !.pre_fixed = p.fixed_step,
                                           !.tries = 0]],
              chan |-> pub.chan, sent_log |-> pub.sent_log]
        ELSE [m |-> returned, chan |-> pub.chan, sent_log |-> pub.sent_log]

\* until_time_elapsed, after a derive returned (t, state): publish and go on,
\* or land on the stop time, or publish and return. Gives the machine and the
\* channel and the log of the sends.
AfterDerive(m, tx, c, tlog) ==
    LET cl == m.call
        p == m.prop
        pub == Publish(tx, m.dynamics, c, m.set_log, tlog, cl.t, cl.state)
        overshot == Sub(cl.t, cl.stop_time)
        published == [m EXCEPT !.dynamics = pub.dynamics,
                               !.set_log = pub.set_log]
        returned == [published EXCEPT
                       !.pc = "idle",
                       !.ret = [op |-> "until", t |-> cl.t, state |-> cl.state]]
    IN  IF cl.landing
        THEN [m |-> returned, chan |-> pub.chan, sent_log |-> pub.sent_log]
        ELSE IF NotPassed(cl.t, cl.stop_time, cl.backprop)
        THEN [m |-> [published EXCEPT
                       !.prop = DeriveEntry(p),
                       !.pc = "derive",
                       !.call = [cl EXCEPT !.dt = pub.dynamics.time,
                                           !.dx = pub.dynamics.state,
                                           !.tries = 0]],
              chan |-> pub.chan, sent_log |-> pub.sent_log]
        ELSE IF Overshot(overshot, cl.backprop)
        THEN [m |-> [m EXCEPT
                       !.prop = DeriveEntry(
                                  set_fixed_step(p, LandingStep(p.details, overshot))),
                       !.pc = "derive",
                       !.call = [cl EXCEPT !.landing = TRUE,
                                           !.dt = m.dynamics.time,
                                           !.dx = m.dynamics.state,
                                           !.pre_step = p.step_size,
                                           !.pre_fixed = p.fixed_step,
                                           !.tries = 0]],
              chan |-> c, sent_log |-> tlog]
        ELSE [m |-> returned, chan |-> pub.chan, sent_log |-> pub.sent_log]

\* the variables of the propagation become those of the machine m
Becomes(m) ==
    /\ prop' = m.prop
    /\ dynamics' = m.dynamics
    /\ pc' = m.pc
    /\ call' = m.call
    /\ set_log' = m.set_log
    /\ ret' = m.ret

\* ----------------------------------------------------------------- actions
\* the caller calls until_time_elapsed(elapsed_time)
UntilTimeElapsed(elapsed_time) ==
    /\ pc = "idle"
    /\ ncalls < MaxCalls
    /\ Becomes(UntilEntry(Cur, elapsed_time))
    /\ sent_log' = <<>>
    /\ last' = NoAttempt
    /\ ncalls' = ncalls + 1
    /\ UNCHANGED <<tx_chan, chan, nestimates>>

\* the caller calls derive(t, state)
Derive ==
    /\ pc = "idle"
    /\ ncalls < MaxCalls
    /\ Becomes(CallDerive(Cur))
    /\ sent_log' = <<>>
    /\ last' = NoAttempt
    /\ ncalls' = ncalls + 1
    /\ UNCHANGED <<tx_chan, chan, nestimates>>

\* one pass of the loop of derive, with the error estimate err; eom_ok tells
\* whether every evaluation of the dynamics of this pass succeeded
Attempt(err, eom_ok) ==
    /\ pc = "derive"
    /\ prop.fixed_step \/ nestimates < MaxEstimates
    /\ nestimates' = IF prop.fixed_step THEN nestimates ELSE nestimates + 1
    /\ LET m == AfterAttempt(Cur, err)
       IN  /\ IsFinite(m.prop.step_size) => m.prop.step_size[2] <= MaxDen
           /\ Becomes(m)
           /\ last' = [op |-> call.op, landing |-> call.landing,
                       fixed |-> prop.fixed_step, h |-> prop.step_size,
                       err |-> err, attempts |-> prop.details.attempts,
                       committed |-> (m.pc # "derive"),
                       next_step |-> m.prop.step_size,
                       t_in |-> call.dt, t_out |-> m.call.t,
                       eom_ok |-> eom_ok]
    /\ UNCHANGED <<tx_chan, chan, sent_log, ncalls>>

\* until_time_elapsed goes on after a derive returned
UntilStep ==
    /\ pc = "derived"
    /\ Len(set_log) < MaxLog
    /\ LET r == AfterDerive(Cur, tx_chan, chan, sent_log)
       IN  /\ Becomes(r.m)
           /\ chan' = r.chan
           /\ sent_log' = r.sent_log
    /\ last' = NoAttempt
    /\ UNCHANGED <<tx_chan, ncalls, nestimates>>

\* the consumer drops the receiving end of the channel, and with it the
\* messages it had not received
DropReceiver ==
    /\ tx_chan
    /\ chan.rx_alive
    /\ chan' = [chan EXCEPT !.queue = <<>>, !.rx_alive = FALSE]
    /\ UNCHANGED <<prop, tx_chan, dynamics, pc, call, set_log, sent_log, ret,
                   last, ncalls, nestimates>>

\* the values E::estimate may return in the state: a fixed step computes none
Estimates == IF prop.fixed_step THEN {Zero} ELSE ErrValues

InitPropagation ==
    /\ \E T \in Tableaus, opts \in Options : prop = new(T, opts)
    /\ dynamics = [time |-> Zero, state |-> Zero]
    /\ chan = [queue |-> <<>>, rx_alive |-> TRUE, warned |-> FALSE]
    /\ pc = "idle"
    /\ call = NoCall
    /\ set_log = <<>>
    /\ sent_log = <<>>
    /\ ret = NoRet
    /\ last = NoAttempt
    /\ ncalls = 0
    /\ nestimates = 0
    /\ ref = Cur

\* ------------------------------------------- propagation without a sink
Init ==
    /\ InitPropagation
    /\ tx_chan = FALSE
    /\ input = NoInput
    /\ output = NoOutput
    /\ threads = NoThreads

Next ==
    \/ \E elapsed_time \in ElapsedTimes :
         UntilTimeElapsed(elapsed_time) /\ UNCHANGED <<ref, input, output, threads>>
    \/ Derive /\ UNCHANGED <<ref, input, output, threads>>
    \/ \E err \in Estimates, eom_ok \in BOOLEAN :
         Attempt(err, eom_ok) /\ UNCHANGED <<ref, input, output, threads>>
    \/ UntilStep /\ UNCHANGED <<ref, input, output, threads>>

Spec == Init /\ [][Next]_vars

\* ---------------------- propagation with a sink, beside the one without
\* the reference propagation takes the same step on the same input
RefFollows(m) == ref' = m /\ UNCHANGED <<input, output, threads>>

SinkInit ==
    /\ InitPropagation
    /\ tx_chan = TRUE
    /\ input = NoInput
    /\ output = NoOutput
    /\ threads = NoThreads

SinkNext ==
    \/ \E elapsed_time \in ElapsedTimes :
         /\ UntilTimeElapsed(elapsed_time)
         /\ RefFollows(IF ref.pc = "idle" THEN UntilEntry(ref, elapsed_time)
                       ELSE ref)
    \/ /\ Derive
       /\ RefFollows(IF ref.pc = "idle" THEN CallDerive(ref) ELSE ref)
    \/ \E err \in Estimates, eom_ok \in BOOLEAN :
         /\ Attempt(err, eom_ok)
         /\ RefFollows(IF ref.pc = "derive" THEN AfterAttempt(ref, err)
                       ELSE ref)
    \/ /\ UntilStep
       /\ RefFollows(IF ref.pc = "derived"
                     THEN AfterDerive(ref, FALSE, chan, <<>>).m ELSE ref)
    \/ DropReceiver /\ UNCHANGED <<ref, input, output, threads>>

SinkSpec == SinkInit /\ [][SinkNext]_vars

\* ------------------------------------------ functions called on their own
\* the variables of the propagation, which stays as built
propagation == <<prop, tx_chan, dynamics, chan, pc, call, set_log, sent_log,
                 ret, last, ncalls, nestimates, ref>>

NoPropagation ==
    /\ InitPropagation
    /\ prop = new(RK2Fixed, with_fixed_step(Int2F(2)))
    /\ tx_chan = FALSE
    /\ threads = NoThreads

\* the caller returns the value fn computed on the arguments held in input
Returns(fn, value) ==
    /\ input.fn = fn
    /\ output = NoOutput
    /\ output' = [fn |-> fn, value |-> value]
    /\ UNCHANGED <<input, propagation, threads>>

\* ---------------------------------------------- the constructors of PropOpts
\* the steps and tolerances the caller passes
StepValues == {F(1, 4), F(1, 2), One, Int2F(2), Int2F(3)}

OptsInputs ==
    {[fn |-> "with_fixed_step", step |-> x] : x \in StepValues}
    \cup {[fn |-> "with_adaptive_step", min_step |-> x, max_step |-> y,
           tolerance |-> z] : x \in StepValues, y \in StepValues,
                              z \in StepValues}
    \cup {[fn |-> "default"]}

WithFixedStep == Returns("with_fixed_step", with_fixed_step(input.step))

WithAdaptiveStep ==
    Returns("with_adaptive_step",
            with_adaptive_step(input.min_step, input.max_step,
                               input.tolerance))

Default == Returns("default", default)

OptsInit ==
    /\ NoPropagation
    /\ input \in OptsInputs
    /\ output = NoOutput

OptsNext == WithFixedStep \/ WithAdaptiveStep \/ Default

OptsSpec == OptsInit /\ [][OptsNext]_vars

\* ------------------------------------------------- vectors and matrices
Zeros(n) == [i \in 1..n |-> Zero]
VAdd(a, b) == [i \in 1..Len(a) |-> Add(a[i], b[i])]
VSub(a, b) == [i \in 1..Len(a) |-> Sub(a[i], b[i])]
VScale(c, v) == [i \in 1..Len(v) |-> Mul(c, v[i])]
VDiv(v, c) == [i \in 1..Len(v) |-> Div(v[i], c)]

\* f64::sqrt, on the squares of rationals
Sqrt(x) == Powf(x, F(1, 2))
Powi3(x) == Mul(x, Mul(x, x))

\* the norm of a 3-vector
VNorm(v) == Sqrt(Add(Add(Mul(v[1], v[1]), Mul(v[2], v[2])), Mul(v[3], v[3])))

MatZeros(n) == [i \in 1..n |-> Zeros(n)]
Identity(n) == [i \in 1..n |-> [j \in 1..n |-> IF i = j THEN One ELSE Zero]]
MatAdd(a, b) == [i \in 1..Len(a) |-> VAdd(a[i], b[i])]

RECURSIVE RowByColumn(_, _, _, _, _)
RowByColumn(a, b, i, j, k) ==
    IF k > Len(b) THEN Zero
    ELSE Add(Mul(a[i][k], b[k][j]), RowByColumn(a, b, i, j, k + 1))

\* the matrix product a * b
MatMul(a, b) ==
    [i \in 1..Len(a) |-> [j \in 1..Len(b[1]) |-> RowByColumn(a, b, i, j, 1)]]

\* ----------------------------------------------------------- hyperduals
\* Hyperdual<f64, Const<7>>: a real part and six dual parts
HyperdualSize == 7
Parts == 1..HyperdualSize

from_real(x) == [j \in Parts |-> IF j = 1 THEN x ELSE Zero]

HAdd(a, b) == [j \in Parts |-> Add(a[j], b[j])]
HSub(a, b) == [j \in Parts |-> Sub(a[j], b[j])]

HMul(a, b) ==
    [j \in Parts |-> IF j = 1 THEN Mul(a[1], b[1])
                     ELSE Add(Mul(a[1], b[j]), Mul(a[j], b[1]))]

HDiv(a, b) ==
    [j \in Parts |-> IF j = 1 THEN Div(a[1], b[1])
                     ELSE Div(Sub(Mul(a[j], b[1]), Mul(a[1], b[j])),
                              Mul(b[1], b[1]))]

HSqrt(a) ==
    LET r == Sqrt(a[1])
    IN  [j \in Parts |-> IF j = 1 THEN r ELSE Div(a[j], Mul(Int2F(2), r))]

HPowi3(a) ==
    [j \in Parts |-> IF j = 1 THEN Powi3(a[1])
                     ELSE Mul(Mul(Int2F(3), Mul(a[1], a[1])), a[j])]

\* the norm of a 3-vector of hyperduals
norm(v) == HSqrt(HAdd(HAdd(HMul(v[1], v[1]), HMul(v[2], v[2])), HMul(v[3], v[3])))

\* the i-th entry of the vector has the real part v[i] and the i-th dual 1
hyperspace_from_vector(v) ==
    [i \in 1..Len(v) |->
        [j \in Parts |-> IF j = 1 THEN v[i]
                         ELSE IF j = i + 1 THEN One ELSE Zero]]

\* the real parts and the first n dual parts of each entry
extract_jacobian_and_result(v, n) ==
    [fx |-> [i \in 1..Len(v) |-> v[i][1]],
     grad |-> [i \in 1..Len(v) |-> [j \in 1..n |-> v[i][j + 1]]]]

\* ------------------------------------------------ frames and ephemerides
Earth == [ephem_path |-> "Earth", gm |-> Int2F(2)]
Moon == [ephem_path |-> "Moon", gm |-> One]
Sun == [ephem_path |-> "Sun", gm |-> Int2F(3)]

\* Cosm::celestial_state(path, epoch, frame, correction).radius(): where the
\* body is, seen from the centre of the frame (Earth), epoch after epoch
celestial_state(path, epoch, frame, correction) ==
    IF path = frame.ephem_path THEN Zeros(3)
    ELSE IF path = "Moon"
    THEN (CASE epoch = 0 -> <<Zero, Int2F(4), Zero>>
            [] epoch = 1 -> <<Zero, Zero, Int2F(4)>>
            [] OTHER -> <<Zero, Int2F(-4), Zero>>)
    ELSE (CASE epoch = 0 -> <<Zero, Zero, Int2F(-4)>>
            [] epoch = 1 -> <<Zero, Int2F(-4), Zero>>
            [] OTHER -> <<Zero, Zero, Int2F(4)>>)

\* Option<Matrix6>: None
NoStm == <<>>

\* Orbit::ctor_from(delta_t_s, vector): the orbit of the context, delta_t_s
\* later, at the position and velocity of the vector
ctor_from(ctx, delta_t_s, state) ==
    [ctx EXCEPT !.radius = SubSeq(state, 1, 3),
                !.velocity = SubSeq(state, 4, 6),
                !.dt = ctx.dt + delta_t_s]

\* ------------------------------------------------------------ PointMasses
\* a variant of the loop of PointMasses::eom that skips no body
RECURSIVE PointMasses_eom_every_body(_, _, _, _, _)
PointMasses_eom_every_body(pm, osc, i, d_x, queries) ==
    IF i > Len(pm.bodies) THEN [acc |-> d_x, queries |-> queries]
    ELSE LET third_body == pm.bodies[i]
             st_ij == celestial_state(third_body.ephem_path, osc.dt,
                                      osc.frame, pm.correction)
             r_ij3 == Powi3(VNorm(st_ij))
             r_j == VSub(osc.radius, st_ij)
             r_j3 == Powi3(VNorm(r_j))
         IN  PointMasses_eom_every_body(pm, osc, i + 1,
                 VAdd(d_x, VScale(Neg(third_body.gm),
                                  VAdd(VDiv(r_j, r_j3), VDiv(st_ij, r_ij3)))),
                 Append(queries, <<third_body.ephem_path, osc.dt>>))

\* the loop of PointMasses::eom from the i-th body on; queries are the calls
\* of celestial_state made so far
RECURSIVE PointMasses_eom_loop(_, _, _, _, _)
PointMasses_eom_loop(pm, osc, i, d_x, queries) ==
    IF i > Len(pm.bodies) THEN [acc |-> d_x, queries |-> queries]
    ELSE LET third_body == pm.bodies[i]
         IN  IF third_body = osc.frame
             THEN PointMasses_eom_loop(pm, osc, i + 1, d_x, queries)
             ELSE LET st_ij == celestial_state(third_body.ephem_path, osc.dt,
                                               osc.frame, pm.correction)
                      r_ij == st_ij
                      r_ij3 == Powi3(VNorm(st_ij))
                      r_j == VSub(osc.radius, r_ij)
                      r_j3 == Powi3(VNorm(r_j))
                  IN  PointMasses_eom_loop(pm, osc, i + 1,
                          VAdd(d_x, VScale(Neg(third_body.gm),
                                           VAdd(VDiv(r_j, r_j3),
                                                VDiv(r_ij, r_ij3)))),
                          Append(queries, <<third_body.ephem_path, osc.dt>>))

PointMasses_eom(pm, osc) == PointMasses_eom_loop(pm, osc, 1, Zeros(3), <<>>)

RECURSIVE PointMasses_dual_eom_loop(_, _, _, _, _, _, _)
PointMasses_dual_eom_loop(pm, radius, osc, i, fx, grad, queries) ==
    IF i > Len(pm.bodies) THEN [acc |-> fx, grad |-> grad, queries |-> queries]
    ELSE LET third_body == pm.bodies[i]
         IN  IF third_body = osc.frame
             THEN PointMasses_dual_eom_loop(pm, radius, osc, i + 1, fx, grad,
                                            queries)
             ELSE LET gm_d == from_real(Neg(third_body.gm))
                      st_ij == celestial_state(third_body.ephem_path, osc.dt,
                                               osc.frame, pm.correction)
                      r_ij == hyperspace_from_vector(st_ij)
                      r_ij3 == HDiv(HPowi3(norm(r_ij)), gm_d)
                      diff == [k \in 1..3 |-> HSub(radius[k], r_ij[k])]
                      r_j == [k \in 1..3 |-> [diff[k] EXCEPT ![k + 1] = One]]
                      r_j3 == HDiv(HPowi3(norm(r_j)), gm_d)
                      third_body_acc_d ==
                          [k \in 1..3 |-> HAdd(HDiv(r_j[k], r_j3),
                                               HDiv(r_ij[k], r_ij3))]
                      e == extract_jacobian_and_result(third_body_acc_d, 3)
                  IN  PointMasses_dual_eom_loop(pm, radius, osc, i + 1,
                          VAdd(fx, e.fx), MatAdd(grad, e.grad),
                          Append(queries, <<third_body.ephem_path, osc.dt>>))

PointMasses_dual_eom(pm, radius, osc) ==
    PointMasses_dual_eom_loop(pm, radius, osc, 1, Zeros(3), MatZeros(3), <<>>)

\* -------------------------------------------------------- OrbitalDynamics
\* a variant that adds the accelerations of the models to entries 0..2
RECURSIVE ApplyModelsToVelocity(_, _, _, _, _)
ApplyModelsToVelocity(accel_models, osc, i, d_x, queries) ==
    IF i > Len(accel_models) THEN [d_x |-> d_x, queries |-> queries]
    ELSE LET r == PointMasses_eom(accel_models[i], osc)
         IN  ApplyModelsToVelocity(accel_models, osc, i + 1,
                 [k \in 1..6 |-> IF k <= 3 THEN Add(d_x[k], r.acc[k])
                                 ELSE d_x[k]],
                 queries \o r.queries)

\* for model in &self.accel_models, from the i-th model on (eom)
RECURSIVE ApplyModels(_, _, _, _, _)
ApplyModels(accel_models, osc, i, d_x, queries) ==
    IF i > Len(accel_models) THEN [d_x |-> d_x, queries |-> queries]
    ELSE LET r == PointMasses_eom(accel_models[i], osc)
         IN  ApplyModels(accel_models, osc, i + 1,
                 [k \in 1..6 |-> IF k > 3 THEN Add(d_x[k], r.acc[k - 3])
                                 ELSE d_x[k]],
                 queries \o r.queries)

\* for model in &self.accel_models, from the i-th model on (dual_eom)
RECURSIVE ApplyDualModels(_, _, _, _, _, _, _)
ApplyDualModels(accel_models, radius, ctx, i, fx, grad, queries) ==
    IF i > Len(accel_models)
    THEN [fx |-> fx, grad |-> grad, queries |-> queries]
    ELSE LET r == PointMasses_dual_eom(accel_models[i], radius, ctx)
         IN  ApplyDualModels(accel_models, radius, ctx, i + 1,
                 [k \in 1..6 |-> IF k > 3 THEN Add(fx[k], r.acc[k - 3])
                                 ELSE fx[k]],
                 [k \in 1..6 |-> [j \in 1..6 |->
                     IF k > 3 /\ j <= 3
                     THEN Add(grad[k][j], r.grad[k - 3][j])
                     ELSE grad[k][j]]],
                 queries \o r.queries)

OrbitalDynamics_dual_eom(accel_models, delta_t_s, state, ctx) ==
    LET radius == SubSeq(state, 1, 3)
        velocity == SubSeq(state, 4, 6)
        rmag == norm(radius)
        factor == HDiv(from_real(Neg(ctx.frame.gm)), HPowi3(rmag))
        body_acceleration == [k \in 1..3 |-> HMul(radius[k], factor)]
        fx == [i \in 1..6 |-> IF i <= 3 THEN velocity[i][1]
                              ELSE body_acceleration[i - 3][1]]
        grad == [i \in 1..6 |-> [j \in 1..6 |->
                    IF i <= 3 THEN velocity[i][j + 1]
                    ELSE body_acceleration[i - 3][j + 1]]]
    IN  ApplyDualModels(accel_models, radius, ctx, 1, fx, grad, <<>>)

\* the 6 x 6 matrix as 36 entries, row after row
Flatten(m) == [n \in 1..36 |-> m[((n - 1) \div 6) + 1][((n - 1) % 6) + 1]]

\* a variant of eom whose STM derivative is formed from the STM carried in
\* entries 6..41 of the vector
OrbitalDynamics_eom_stm_of_vector(accel_models, delta_t_s, state, ctx) ==
    IF ctx.stm # NoStm
    THEN LET pos_vel == SubSeq(state, 1, 6)
             r == OrbitalDynamics_dual_eom(accel_models, delta_t_s,
                                           hyperspace_from_vector(pos_vel), ctx)
             stm == [i \in 1..6 |-> [j \in 1..6 |-> state[6 * i + j]]]
             stm_dt == MatMul(stm, r.grad)
         IN  [value |-> r.fx \o Flatten(stm_dt), queries |-> r.queries]
    ELSE LET osc == ctor_from(ctx, delta_t_s, state)
             body_acceleration ==
                 VScale(Div(Neg(osc.frame.gm), Powi3(VNorm(osc.radius))),
                        osc.radius)
             d_x == osc.velocity \o body_acceleration
             r == ApplyModels(accel_models, osc, 1, d_x, <<>>)
         IN  [value |-> r.d_x \o Zeros(36), queries |-> r.queries]

OrbitalDynamics_eom(accel_models, delta_t_s, state, ctx) ==
    IF ctx.stm # NoStm
    THEN LET pos_vel == SubSeq(state, 1, 6)
             r == OrbitalDynamics_dual_eom(accel_models, delta_t_s,
                                           hyperspace_from_vector(pos_vel), ctx)
             stm_dt == MatMul(ctx.stm, r.grad)
         IN  [value |-> r.fx \o Flatten(stm_dt), queries |-> r.queries]
    ELSE LET osc == ctor_from(ctx, delta_t_s, state)
             body_acceleration ==
                 VScale(Div(Neg(osc.frame.gm), Powi3(VNorm(osc.radius))),
                        osc.radius)
             d_x == osc.velocity \o body_acceleration
             r == ApplyModels(accel_models, osc, 1, d_x, <<>>)
         IN  [value |-> r.d_x \o Zeros(36), queries |-> r.queries]

\* -------------------------------- the equations of motion called on their own
PointMassesOf(bodies) == [bodies |-> bodies, correction |-> "None"]

\* the lists of bodies PointMasses is built with
BodyLists ==
    {<<>>, <<Earth>>, <<Moon>>, <<Earth, Moon>>, <<Moon, Earth, Sun>>,
     <<Moon, Sun>>, <<Sun, Moon>>}

\* the lists of models OrbitalDynamics is built with
ModelLists ==
    {<<>>, <<PointMassesOf(<<Moon>>)>>, <<PointMassesOf(<<Earth, Moon>>)>>,
     <<PointMassesOf(<<Moon>>), PointMassesOf(<<Sun>>)>>,
     <<PointMassesOf(<<Sun>>), PointMassesOf(<<Moon>>)>>}

Positions == {<<Int2F(3), Zero, Zero>>, <<Int2F(-3), Zero, Zero>>}
Velocities == {<<Zero, One, Zero>>, <<One, Zero, Int2F(2)>>}

\* the STM of a drift: the position moves with the velocity
Drift ==
    [i \in 1..6 |-> [j \in 1..6 |-> IF i = j \/ j = i + 3 THEN One ELSE Zero]]

Stms == {NoStm, Identity(6), Drift}

\* entries 6..41 of the propagated vector
StmEntries == {Zeros(36), Flatten(Drift)}

Epochs == {0, 1}
TimeOffsets == {0, 1}

OrbitOf(radius, velocity, dt, stm) ==
    [radius |-> radius, velocity |-> velocity, dt |-> dt, frame |-> Earth,
     stm |-> stm]

EomInputs ==
    {[fn |-> "OrbitalDynamics::eom", accel_models |-> models,
      delta_t_s |-> delta_t_s, state |-> r \o v \o entries,
      ctx |-> OrbitOf(<<Int2F(3), Zero, Zero>>, <<Zero, One, Zero>>, dt, stm)] :
        models \in ModelLists, delta_t_s \in TimeOffsets, r \in Positions,
        v \in Velocities, entries \in StmEntries, dt \in Epochs, stm \in Stms}
    \cup
    {[fn |-> f, pm |-> PointMassesOf(bodies),
      osc |-> OrbitOf(r, <<Zero, One, Zero>>, dt, NoStm)] :
        f \in {"PointMasses::eom", "PointMasses::dual_eom"},
        bodies \in BodyLists, r \in Positions, dt \in Epochs}

OrbitalEom ==
    Returns("OrbitalDynamics::eom",
            OrbitalDynamics_eom(input.accel_models, input.delta_t_s,
                                input.state, input.ctx))

PointMassesEom ==
    Returns("PointMasses::eom", PointMasses_eom(input.pm, input.osc))

PointMassesDualEom ==
    Returns("PointMasses::dual_eom",
            PointMasses_dual_eom(input.pm,
                                 hyperspace_from_vector(input.osc.radius),
                                 input.osc))

EomInit ==
    /\ NoPropagation
    /\ input \in EomInputs
    /\ output = NoOutput

EomNext == OrbitalEom \/ PointMassesEom \/ PointMassesDualEom

EomSpec == EomInit /\ [][EomNext]_vars

\* -------------------------------------------------------------- Harmonics
\* The f64 values of Harmonics::eom are kept as integers k standing for
\* k / Resolution; every operation rounds down to the grid, as an f64
\* operation rounds to the nearest f64.
Fx(n, d) == (n * Resolution) \div d
FxMul(a, b) == (a * b) \div Resolution
FxDiv(a, b) == (a * Resolution) \div b

RECURSIVE ISqrtBetween(_, _, _)
ISqrtBetween(v, lo, hi) ==
    IF lo >= hi THEN lo
    ELSE LET mid == (lo + hi + 1) \div 2
         IN  IF mid * mid <= v THEN ISqrtBetween(v, mid, hi)
             ELSE ISqrtBetween(v, lo, mid - 1)

\* the largest k with k * k <= v
ISqrt(v) == ISqrtBetween(v, 0, 46340)
FxSqrt(a) == ISqrt(a * Resolution)

\* radius.norm()
FxNorm(v) == FxSqrt(FxMul(v[1], v[1]) + FxMul(v[2], v[2]) + FxMul(v[3], v[3]))

Min(a, b) == IF a <= b THEN a ELSE b

\* GravityPotentialStor: max_degree(), max_order() and the table cs_nm reads
Stor(max_degree, max_order, c_val, s_val) ==
    [max_degree |-> max_degree, max_order |-> max_order,
     cs |-> [n \in 0..max_degree |-> [m \in 0..max_order |->
                IF n = 0 \/ m > n THEN <<0, 0>>
                ELSE <<c_val, IF m = 0 THEN 0 ELSE s_val>>]]]

cs_nm(stor, n, m) == stor.cs[n][m]

\* the body B of Harmonics::from_stor
Planet == [gm |-> Fx(2, 1), eq_radius |-> Fx(1, 1)]

from_stor(B, stor) ==
    [neg_mu |-> -B.gm, body_radius |-> B.eq_radius, stor |-> stor]

\* the tables after the zero fill: (max_degree + 3) rows of as many zeros
ZeroTable(max_degree) ==
    [n \in 0..max_degree + 2 |-> [m \in 0..max_degree + 2 |-> 0]]
ZeroVector(max_degree) == [n \in 0..max_degree + 2 |-> 0]

\* for nu16 in 0..=max_degree, for mu16 in 0..=min(nu16, max_order): every
\* entry is written once, from n and m alone
Vr01(max_degree, max_order, sqrt2) ==
    [nu16 \in 0..max_degree + 2 |-> [mu16 \in 0..max_degree + 2 |->
        IF nu16 <= max_degree /\ mu16 <= Min(nu16, max_order)
        THEN LET n == nu16
                 m == mu16
                 v == FxSqrt(Fx((n - m) * (n + m + 1), 1))
             IN  IF mu16 = 0 THEN FxDiv(v, sqrt2) ELSE v
        ELSE 0]]

Vr11(max_degree, max_order, sqrt2) ==
    [nu16 \in 0..max_degree + 2 |-> [mu16 \in 0..max_degree + 2 |->
        IF nu16 <= max_degree /\ mu16 <= Min(nu16, max_order)
        THEN LET n == nu16
                 m == mu16
                 v == FxSqrt(Fx((2 * n + 1) * (n + m + 2) * (n + m + 1),
                                2 * n + 3))
             IN  IF mu16 = 0 THEN FxDiv(v, sqrt2) ELSE v
        ELSE 0]]

\* for n in 1..=max_degree + 2: the diagonal, from the n-th entry on
RECURSIVE DiagonalPass(_, _, _)
DiagonalPass(a_matrix, n, max_degree) ==
    IF n > max_degree + 2 THEN a_matrix
    ELSE DiagonalPass(
             [a_matrix EXCEPT ![n][n] =
                 FxMul(FxSqrt(Fx(2 * n + 1, 2 * n)), a_matrix[n - 1][n - 1])],
             n + 1, max_degree)

\* for nu16 in 1..=max_degree + 1: the entries under the diagonal
RECURSIVE SubDiagonalPass(_, _, _, _)
SubDiagonalPass(a_matrix, u_, nu16, max_degree) ==
    IF nu16 > max_degree + 1 THEN a_matrix
    ELSE SubDiagonalPass(
             [a_matrix EXCEPT ![nu16 + 1][nu16] =
                 FxMul(FxMul(u_, FxSqrt(Fx(2 * nu16 + 3, 1))),
                       a_matrix[nu16][nu16])],
             u_, nu16 + 1, max_degree)

\* the column-fill value of row nu16 in column mu16
ColumnEntry(a_matrix, u_, mu16, nu16) ==
    LET n == nu16
        m == mu16
        n1 == FxSqrt(Fx((2 * n + 1) * (2 * n - 1), (n - m) * (n + m)))
        n2 == FxSqrt(Fx((2 * n + 1) * (n - m - 1) * (n + m - 1),
                        (2 * n - 3) * (n + m) * (n - m)))
    IN  FxMul(FxMul(u_, n1), a_matrix[nu16 - 1][mu16])
          - FxMul(n2, a_matrix[nu16 - 2][mu16])

\* a variant of the column fill that writes entry [mu16][nu16]
RECURSIVE ColumnFillTransposed(_, _, _, _, _)
ColumnFillTransposed(a_matrix, u_, mu16, nu16, max_degree) ==
    IF nu16 > max_degree + 1 THEN a_matrix
    ELSE ColumnFillTransposed(
             [a_matrix EXCEPT ![mu16][nu16] =
                 ColumnEntry(a_matrix, u_, mu16, nu16)],
             u_, mu16, nu16 + 1, max_degree)

\* for nu16 in (mu16 + 2)..=max_degree + 1: column mu16 from row nu16 on
RECURSIVE ColumnFill(_, _, _, _, _)
ColumnFill(a_matrix, u_, mu16, nu16, max_degree) ==
    IF nu16 > max_degree + 1 THEN a_matrix
    ELSE ColumnFill(
             [a_matrix EXCEPT ![nu16][mu16] =
                 ColumnEntry(a_matrix, u_, mu16, nu16)],
             u_, mu16, nu16 + 1, max_degree)

\* for mu16 in 0..=max_order + 1: the column fill, then re and im of
\* (s + i t)^mu16
RECURSIVE ColumnPass(_, _, _, _, _, _, _)
ColumnPass(tab, s_, t_, u_, mu16, max_order, max_degree) ==
    IF mu16 > max_order + 1 THEN tab
    ELSE LET re == IF mu16 = 0 THEN Fx(1, 1)
                   ELSE FxMul(s_, tab.re[mu16 - 1])
                          - FxMul(t_, tab.im[mu16 - 1])
             im == IF mu16 = 0 THEN 0
                   ELSE FxMul(s_, tab.im[mu16 - 1])
                          + FxMul(t_, tab.re[mu16 - 1])
         IN  ColumnPass(
                 [a_matrix |-> ColumnFill(tab.a_matrix, u_, mu16, mu16 + 2,
                                          max_degree),
                  re |-> [tab.re EXCEPT ![mu16] = re],
                  im |-> [tab.im EXCEPT ![mu16] = im]],
                 s_, t_, u_, mu16 + 1, max_order, max_degree)

\* the locals of Harmonics::eom once the tables are built
Harmonics_tables(h, state) ==
    LET radius == SubSeq(state, 1, 3)
        r_ == FxNorm(radius)
        s_ == FxDiv(radius[1], FxNorm(radius))
        t_ == FxDiv(radius[2], FxNorm(radius))
        u_ == FxDiv(radius[3], FxNorm(radius))
        max_degree == h.stor.max_degree
        max_order == h.stor.max_order
        sqrt2 == FxSqrt(Fx(2, 1))
        diagonal ==
            DiagonalPass([ZeroTable(max_degree) EXCEPT ![0][0] = Fx(1, 1)],
                         1, max_degree)
        first == [diagonal EXCEPT ![1][0] = FxMul(u_, FxSqrt(Fx(3, 1)))]
        under == SubDiagonalPass(first, u_, 1, max_degree)
        tab == ColumnPass([a_matrix |-> under, re |-> ZeroVector(max_degree),
                           im |-> ZeroVector(max_degree)],
                          s_, t_, u_, 0, max_order, max_degree)
    IN  [r_ |-> r_, s_ |-> s_, t_ |-> t_, u_ |-> u_, sqrt2 |-> sqrt2,
         a_matrix |-> tab.a_matrix, re |-> tab.re, im |-> tab.im,
         vr01 |-> Vr01(max_degree, max_order, sqrt2),
         vr11 |-> Vr11(max_degree, max_order, sqrt2)]

\* a variant of the loop over the orders that reads the coefficients of
\* order 0 at every order
RECURSIVE OrderSumsOfOrderZero(_, _, _, _, _)
OrderSumsOfOrderZero(h, tab, n, m, sums) ==
    IF m > Min(n, h.stor.max_order) THEN sums
    ELSE LET cs == cs_nm(h.stor, n, 0)
             c_val == cs[1]
             s_val == cs[2]
             d_ == FxMul(FxMul(c_val, tab.re[m]) + FxMul(s_val, tab.im[m]),
                         tab.sqrt2)
             e_ == IF m = 0 THEN 0
                   ELSE FxMul(FxMul(c_val, tab.re[m - 1])
                                + FxMul(s_val, tab.im[m - 1]), tab.sqrt2)
             f_ == IF m = 0 THEN 0
                   ELSE FxMul(FxMul(s_val, tab.re[m - 1])
                                - FxMul(c_val, tab.im[m - 1]), tab.sqrt2)
         IN  OrderSumsOfOrderZero(h, tab, n, m + 1,
                 [sum1 |-> sums.sum1
                     + FxMul(FxMul(Fx(m, 1), tab.a_matrix[n][m]), e_),
                  sum2 |-> sums.sum2
                     + FxMul(FxMul(Fx(m, 1), tab.a_matrix[n][m]), f_),
                  sum3 |-> sums.sum3
                     + FxMul(FxMul(tab.vr01[n][m], tab.a_matrix[n][m + 1]),
                             d_),
                  sum4 |-> sums.sum4
                     + FxMul(FxMul(tab.vr11[n][m],
                                   tab.a_matrix[n + 1][m + 1]), d_)])

\* for m in 0..=min(n, max_order): the four sums of degree n from order m on
RECURSIVE OrderSums(_, _, _, _, _)
OrderSums(h, tab, n, m, sums) ==
    IF m > Min(n, h.stor.max_order) THEN sums
    ELSE LET cs == cs_nm(h.stor, n, m)
             c_val == cs[1]
             s_val == cs[2]
             d_ == FxMul(FxMul(c_val, tab.re[m]) + FxMul(s_val, tab.im[m]),
                         tab.sqrt2)
             e_ == IF m = 0 THEN 0
                   ELSE FxMul(FxMul(c_val, tab.re[m - 1])
                                + FxMul(s_val, tab.im[m - 1]), tab.sqrt2)
             f_ == IF m = 0 THEN 0
                   ELSE FxMul(FxMul(s_val, tab.re[m - 1])
                                - FxMul(c_val, tab.im[m - 1]), tab.sqrt2)
         IN  OrderSums(h, tab, n, m + 1,
                 [sum1 |-> sums.sum1
                     + FxMul(FxMul(Fx(m, 1), tab.a_matrix[n][m]), e_),
                  sum2 |-> sums.sum2
                     + FxMul(FxMul(Fx(m, 1), tab.a_matrix[n][m]), f_),
                  sum3 |-> sums.sum3
                     + FxMul(FxMul(tab.vr01[n][m], tab.a_matrix[n][m + 1]),
                             d_),
                  sum4 |-> sums.sum4
                     + FxMul(FxMul(tab.vr11[n][m],
                                   tab.a_matrix[n + 1][m + 1]), d_)])

\* for n in 1..=max_degree: a1..a4 from degree n on
RECURSIVE DegreeSums(_, _, _, _, _, _)
DegreeSums(h, tab, n, rho, rho_np1, a) ==
    IF n > h.stor.max_degree THEN a
    ELSE LET next_rho_np1 == FxMul(rho_np1, rho)
             sums == OrderSums(h, tab, n, 0,
                         [sum1 |-> 0, sum2 |-> 0, sum3 |-> 0, sum4 |-> 0])
             rr == FxDiv(next_rho_np1, h.body_radius)
         IN  DegreeSums(h, tab, n + 1, rho, next_rho_np1,
                 [a1 |-> a.a1 + FxMul(rr, sums.sum1),
                  a2 |-> a.a2 + FxMul(rr, sums.sum2),
                  a3 |-> a.a3 + FxMul(rr, sums.sum3),
                  a4 |-> a.a4 - FxMul(rr, sums.sum4)])

\* ------------------------------ the indices Harmonics::eom uses, loop by loop
\* the entry [n][m] of one of the tables, the entry [m] of re or im
At(table, n, m) == [table |-> table, index |-> <<n, m>>]
AtVector(vector, m) == [table |-> vector, index |-> <<m>>]

\* for n in 0..=max_degree + 2, for _m in 0..=max_degree + 2: the pushes go
\* to row n of the three tables, and once per n to re and im
ZeroFillIndices(max_degree) ==
    UNION {{At("a_matrix", n, _m), At("vr01", n, _m), At("vr11", n, _m),
            AtVector("re", n), AtVector("im", n)} :
           n \in 0..max_degree + 2, _m \in 0..max_degree + 2}

\* for nu16 in 0..=max_degree, for mu16 in 0..=min(nu16, max_order)
VrIndices(max_degree, max_order) ==
    UNION {UNION {{At("vr01", nu16, mu16), At("vr11", nu16, mu16)} :
                  mu16 \in 0..Min(nu16, max_order)} :
           nu16 \in 0..max_degree}

\* a_matrix[0][0], then for n in 1..=max_degree + 2: [n][n] from
\* [n - 1][n - 1]; then a_matrix[1][0]
DiagonalIndices(max_degree) ==
    {At("a_matrix", 0, 0), At("a_matrix", 1, 0)}
    \cup UNION {{At("a_matrix", n, n), At("a_matrix", n - 1, n - 1)} :
                n \in 1..max_degree + 2}

\* a variant of the loop under the diagonal that runs to max_degree + 2
SubDiagonalIndicesToLastRow(max_degree) ==
    UNION {{At("a_matrix", nu16 + 1, nu16), At("a_matrix", nu16, nu16)} :
           nu16 \in 1..max_degree + 2}

\* for nu16 in 1..=max_degree + 1: [nu16 + 1][nu16] from [nu16][nu16]
SubDiagonalIndices(max_degree) ==
    UNION {{At("a_matrix", nu16 + 1, nu16), At("a_matrix", nu16, nu16)} :
           nu16 \in 1..max_degree + 1}

\* for mu16 in 0..=max_order + 1: for nu16 in (mu16 + 2)..=max_degree + 1 the
\* entry [nu16][mu16] from the two above it, then re and im of mu16 from
\* those of mu16 - 1
ColumnIndices(max_degree, max_order) ==
    UNION {UNION {{At("a_matrix", nu16, mu16), At("a_matrix", nu16 - 1, mu16),
                   At("a_matrix", nu16 - 2, mu16)} :
                  nu16 \in (mu16 + 2)..max_degree + 1}
           \cup {AtVector("re", mu16), AtVector("im", mu16)}
           \cup (IF mu16 = 0 THEN {}
                 ELSE {AtVector("re", mu16 - 1), AtVector("im", mu16 - 1)}) :
           mu16 \in 0..max_order + 1}

\* for n in 1..=max_degree, for m in 0..=min(n, max_order): the reads of the
\* four sums
SumIndices(max_degree, max_order) ==
    UNION {UNION {{AtVector("re", m), AtVector("im", m),
                   At("a_matrix", n, m), At("a_matrix", n, m + 1),
                   At("a_matrix", n + 1, m + 1),
                   At("vr01", n, m), At("vr11", n, m)}
                  \cup (IF m = 0 THEN {}
                        ELSE {AtVector("re", m - 1), AtVector("im", m - 1)}) :
                  m \in 0..Min(n, max_order)} :
           n \in 1..max_degree}

\* every index Harmonics::eom uses on its tables and vectors
Harmonics_indices(max_degree, max_order) ==
    ZeroFillIndices(max_degree)
    \cup VrIndices(max_degree, max_order)
    \cup DiagonalIndices(max_degree)
    \cup SubDiagonalIndices(max_degree)
    \cup ColumnIndices(max_degree, max_order)
    \cup SumIndices(max_degree, max_order)

\* Harmonics::eom: the 6-vector it returns, with the Legendre table it built
\* and the indices it used
Harmonics_eom(h, _t, state) ==
    LET tab == Harmonics_tables(h, state)
        rho == FxDiv(h.body_radius, tab.r_)
        rho_np1 == FxMul(FxDiv(-h.neg_mu, tab.r_), rho)
        a == DegreeSums(h, tab, 1, rho, rho_np1,
                        [a1 |-> 0, a2 |-> 0, a3 |-> 0, a4 |-> 0])
    IN  [value |-> <<0, 0, 0, a.a1 + FxMul(a.a4, tab.s_),
                     a.a2 + FxMul(a.a4, tab.t_), a.a3 + FxMul(a.a4, tab.u_)>>,
         a_matrix |-> tab.a_matrix,
         indices |-> Harmonics_indices(h.stor.max_degree, h.stor.max_order)]

\* ------------------------------------------- Harmonics::eom called on its own
\* the degrees and orders of the stored fields: 0 <= max_order <= max_degree
DegreesAndOrders ==
    {<<max_degree, max_order>> \in (0..MaxDegree) \X (0..MaxDegree) :
        max_order <= max_degree}

\* the values C and S of the stored fields
Coefficients == {<<0, 0>>, <<Fx(-1, 2), 0>>, <<Fx(1, 4), Fx(-1, 8)>>}

\* the positions of the spacecraft, none at the centre
HarmonicsPositions ==
    {r \in {-2, 0, 1, 3} \X {-2, 0, 1, 3} \X {-2, 0, 1, 3} : r # <<0, 0, 0>>}

\* the pairs (n, m) some stored fields hold no coefficient for
Gaps == {{}, {<<1, 0>>}, {<<2, 1>>}, {<<1, 1>>, <<2, 0>>, <<2, 2>>}}

\* the stored field with (0, 0) at the pairs of the gap
Sparse(stor, gap) ==
    [stor EXCEPT !.cs = [n \in 0..stor.max_degree |->
                           [m \in 0..stor.max_order |->
                              IF <<n, m>> \in gap THEN <<0, 0>>
                              ELSE stor.cs[n][m]]]]

HarmonicsInputs ==
    {[fn |-> "Harmonics::eom",
      h |-> from_stor(Planet,
                      Sparse(Stor(nm[1], nm[2], cs[1], cs[2]), gap)),
      t |-> 0,
      state |-> <<Fx(r[1], 1), Fx(r[2], 1), Fx(r[3], 1), 0, Fx(1, 1), 0>>] :
        nm \in DegreesAndOrders, cs \in Coefficients, gap \in Gaps,
        r \in HarmonicsPositions}

HarmonicsEom ==
    Returns("Harmonics::eom", Harmonics_eom(input.h, input.t, input.state))

HarmonicsInit ==
    /\ NoPropagation
    /\ input \in HarmonicsInputs
    /\ output = NoOutput

HarmonicsNext == HarmonicsEom

HarmonicsSpec == HarmonicsInit /\ [][HarmonicsNext]_vars

\* ------------------------------------------------------------------ utils
\* f64::EPSILON is 2^-52; the model keeps its place in the comparisons and
\* scales it to 2^-10
EPSILON == F(1, 1024)

\* for j in 0..i of is_diagonal, from the j-th column on; the break leaves
\* this loop only
RECURSIVE is_diagonal_columns(_, _, _, _)
is_diagonal_columns(m, i, j, is_diag) ==
    IF j >= i THEN is_diag
    ELSE IF \/ i = j /\ Gt(Sub(m[i][j], m[0][0]), EPSILON)
            \/ i # j /\ (\/ Gt(FAbs(m[i][j]), EPSILON)
                         \/ Gt(FAbs(Sub(m[i][j], m[j][i])), EPSILON))
         THEN FALSE
         ELSE is_diagonal_columns(m, i, j + 1, is_diag)

\* for i in 1..2 of is_diagonal, from the i-th row on
RECURSIVE is_diagonal_rows(_, _, _)
is_diagonal_rows(m, i, is_diag) ==
    IF i >= 2 THEN is_diag
    ELSE is_diagonal_rows(m, i + 1, is_diagonal_columns(m, i, 0, is_diag))

is_diagonal(m) == is_diagonal_rows(m, 1, TRUE)

\* ---------------------------------------------- is_diagonal called on its own
\* an entry within EPSILON of zero, and entries that are not
Tiny == F(1, 2048)
OffDiagonalEntries == {Zero, Tiny, One, Int2F(-1)}
DiagonalEntries == {One, Int2F(2)}

Matrices ==
    {[i \in 0..2 |-> [j \in 0..2 |-> IF i = j THEN d[i + 1]
                                     ELSE IF i < j THEN up[i + j]
                                     ELSE lo[i + j]]] :
        d \in [1..3 -> DiagonalEntries],
        up \in [1..3 -> OffDiagonalEntries],
        lo \in [1..3 -> OffDiagonalEntries]}

UtilsInputs == {[fn |-> "is_diagonal", m |-> m] : m \in Matrices}

IsDiagonal == Returns("is_diagonal", is_diagonal(input.m))

UtilsInit ==
    /\ NoPropagation
    /\ input \in UtilsInputs
    /\ output = NoOutput

UtilsNext == IsDiagonal

UtilsSpec == UtilsInit /\ [][UtilsNext]_vars

\* ------------------ the propagator in a producer thread, a consumer beside
\* thread::spawn(move || { ...; prop.tx_chan = Some(truth_tx);
\* prop.for_duration(prop_time) }): the thread calls the propagation once
ProducerCall(prop_time) ==
    /\ threads.producer = "running"
    /\ ncalls = 0
    /\ UntilTimeElapsed(prop_time)
    /\ UNCHANGED <<ref, input, output, threads>>

\* the loop of derive and the loop of until_time_elapsed in the thread
ProducerAttempt(err, eom_ok) ==
    /\ threads.producer = "running"
    /\ Attempt(err, eom_ok)
    /\ UNCHANGED <<ref, input, output, threads>>

ProducerStep ==
    /\ threads.producer = "running"
    /\ UntilStep
    /\ UNCHANGED <<ref, input, output, threads>>

\* the propagation has returned: the closure ends and drops the sender
ProducerExit ==
    /\ threads.producer = "running"
    /\ pc = "idle"
    /\ ncalls = 1
    /\ threads' = [threads EXCEPT !.producer = "finished"]
    /\ UNCHANGED <<propagation, input, output>>

\* while let Ok(rx_state) = truth_rx.recv(): a message is there, the body runs
RecvOk ==
    /\ threads.consumer = "receiving"
    /\ chan.queue # <<>>
    /\ threads' = [threads EXCEPT !.received = Append(@, Head(chan.queue))]
    /\ chan' = [chan EXCEPT !.queue = Tail(@)]
    /\ UNCHANGED <<prop, tx_chan, dynamics, pc, call, set_log, sent_log, ret,
                   last, ncalls, nestimates, ref, input, output>>

\* recv() gives Err once the channel is empty and the sender is gone: the
\* loop ends; it blocks while the channel is empty and the sender lives
RecvErr ==
    /\ threads.consumer = "receiving"
    /\ chan.queue = <<>>
    /\ threads.producer = "finished"
    /\ threads' = [threads EXCEPT !.consumer = "finished"]
    /\ UNCHANGED <<propagation, input, output>>

Consumer == RecvOk \/ RecvErr

ThreadInit ==
    /\ InitPropagation
    /\ tx_chan = TRUE
    /\ input = NoInput
    /\ output = NoOutput
    /\ threads = [producer |-> "running", consumer |-> "receiving",
                  received |-> <<>>]

ThreadNext ==
    \/ \E prop_time \in ElapsedTimes : ProducerCall(prop_time)
    \/ \E err \in Estimates, eom_ok \in BOOLEAN : ProducerAttempt(err, eom_ok)
    \/ ProducerStep
    \/ ProducerExit
    \/ RecvOk
    \/ RecvErr

\* the consumer thread is scheduled: a recv() that can return does return
ThreadSpec == ThreadInit /\ [][ThreadNext]_vars /\ WF_vars(Consumer)

\* ----------------------------------------------- derive called on its own
\* derive from its n-th attempt on, errs[n] the value E::estimate returns for
\* that attempt; attempts lists, for each pass of the loop, the step size it
\* used and what its stage loop did
RECURSIVE derive_loop(_, _, _, _, _, _)
derive_loop(p, t, state, errs, n, attempts) ==
    LET r == DeriveAttempt(p, t, state, errs[n])
        passes == Append(attempts,
                         [step_size |-> p.step_size, k |-> r.stages.k,
                          a_idx |-> r.stages.a_idx, calls |-> r.stages.calls])
    IN  IF r.done
        THEN [prop |-> r.prop, t |-> r.t, state |-> r.state,
              attempts |-> passes]
        ELSE derive_loop(r.prop, t, state, errs, n + 1, passes)

derive(p, t, state, errs) == derive_loop(DeriveEntry(p), t, state, errs, 1, <<>>)

\* tableaus of one to four stages, fixed and embedded
Euler ==
    [order |-> 1, stages |-> 1, a_coeffs |-> <<>>, b_coeffs |-> <<One>>]

RK4Fixed ==
    [order |-> 4, stages |-> 4,
     a_coeffs |-> <<F(1, 2), Zero, F(1, 2), Zero, Zero, One>>,
     b_coeffs |-> <<F(1, 6), F(1, 3), F(1, 3), F(1, 6)>>]

BogackiShampine ==
    [order |-> 3, stages |-> 4,
     a_coeffs |-> <<F(1, 2), Zero, F(3, 4), F(2, 9), F(1, 3), F(4, 9)>>,
     b_coeffs |-> <<F(2, 9), F(1, 3), F(4, 9), Zero,
                    F(7, 24), F(1, 4), F(1, 3), F(1, 8)>>]

StageTableaus == Tableaus \cup {Euler, RK4Fixed, BogackiShampine}

\* the estimates of the attempts of one call: the tolerance of the options,
\* four times it, or the value under it whose root of the order is 10 / 11
ErrSequences(T) ==
    [1..MaxAttempts ->
        {One, Int2F(4), F(IPow(10, T.order), IPow(11, T.order))}]

DeriveInputs ==
    UNION {{[fn |-> "derive", p |-> new(T, opts), t |-> t, state |-> state,
             errs |-> errs] :
                opts \in Options, t \in {Zero, One},
                state \in {Zero, Int2F(3)}, errs \in ErrSequences(T)} :
           T \in StageTableaus}

DeriveAlone ==
    Returns("derive", derive(input.p, input.t, input.state, input.errs))

DeriveInit ==
    /\ NoPropagation
    /\ input \in DeriveInputs
    /\ output = NoOutput

DeriveNext == DeriveAlone

DeriveSpec == DeriveInit /\ [][DeriveNext]_vars

\* ------------------------------------------------------------- properties
\* f64 equality: false when either side is NaN
Feq(x, y) == ~IsNaN(x) /\ ~IsNaN(y) /\ x = y

\* until_time_elapsed has returned
Returned == pc = "idle" /\ ret.op = "until"

\* an adaptive pass of the loop of derive has just been made
AdaptiveAttempt == last.op # "none" /\ ~last.fixed

MaxOf(a, b) == IF a >= b THEN a ELSE b

\* the times of a log, in the given direction, never go back
Ordered(log, backprop) ==
    \A i \in 1..(Len(log) - 1) :
        IF backprop THEN Ge(log[i][1], log[i + 1][1])
        ELSE Le(log[i][1], log[i + 1][1])

\* C1: when until_time_elapsed(dt) returns, from the time t0 of the dynamics
\* at the call, the time it returns is t0 + dt exactly and the dynamics hold
\* that time, whatever calls were made before.
C1_ReturnsStopTime ==
    Returned =>
        /\ Feq(ret.t, Add(call.init_seconds, call.elapsed_time))
        /\ Feq(dynamics.time, ret.t)

\* C2: with a sink, the pairs sent during a call are the pairs passed to
\* set_state, in the same order, their times ordered in the direction of the
\* propagation, and the last pair sent is the pair the call returns.
C2_SinkSeesEveryState ==
    /\ call.op = "until" => sent_log = set_log
    /\ call.op = "until" => Ordered(sent_log, call.backprop)
    /\ Returned =>
          /\ sent_log # <<>>
          /\ sent_log[Len(sent_log)] = <<ret.t, ret.state>>

\* C3: a send that fails changes nothing but the log: the propagation with a
\* sink whose receiver is dropped at any time and the propagation without a
\* sink, on the same inputs, agree on the pairs passed to set_state, on what
\* the call returns, on the step size, the mode and the details, at every step.
C3_SendFailureIsNotFatal == ref = Cur

\* a call that published several states has returned, and a send of it failed
C3_Witness ==
    /\ Returned
    /\ chan.warned
    /\ ~chan.rx_alive
    /\ Len(sent_log) >= 2
    /\ call.landing

\* C4: a pass of derive in which an evaluation of the dynamics failed ends
\* the call with an error: neither derive nor until_time_elapsed goes on or
\* returns a pair.
C4_EomFailurePropagates ==
    (last.op # "none" /\ ~last.eom_ok) => (pc = "idle" /\ ret.op = "error")

\* C5: an adaptive attempt commits exactly when the error is at most the
\* tolerance, or the step is at most min_step, or the attempts have reached
\* opts.attempts; otherwise the counter goes up by one and derive tries again.
C5_CommitCondition ==
    AdaptiveAttempt =>
        /\ last.committed <=>
              \/ Le(last.err, prop.opts.tolerance)
              \/ Le(last.h, prop.opts.min_step)
              \/ last.attempts >= prop.opts.attempts
        /\ ~last.committed =>
              /\ pc = "derive"
              /\ prop.details.attempts = last.attempts + 1
              /\ prop.step_size = ShrinkStep([prop EXCEPT !.step_size = last.h])

\* an attempt was rejected, and one was committed on exhaustion alone
C5_Witness ==
    /\ AdaptiveAttempt
    /\ last.committed
    /\ last.attempts > 1
    /\ Gt(last.err, prop.opts.tolerance)
    /\ Gt(last.h, prop.opts.min_step)

\* C6: derive makes at most max(1, opts.attempts) attempts; when it returns,
\* details.attempts is the number of attempts made, within that range; the
\* last attempt allowed commits whatever the error, and the time advances.
C6_AttemptsBounded ==
    LET most == MaxOf(1, prop.opts.attempts)
    IN  /\ call.tries <= most
        /\ pc = "derive" => call.tries < most
        /\ (last.op # "none" /\ last.committed) =>
              /\ prop.details.attempts = call.tries
              /\ 1 <= call.tries
        /\ (AdaptiveAttempt /\ last.attempts >= most) =>
              /\ last.committed
              /\ prop.details.step = last.h
              /\ Feq(last.t_out, Add(last.t_in, last.h))
              /\ last.t_out # last.t_in

\* the last attempt allowed has committed a step with too large an error
C6_Witness ==
    /\ AdaptiveAttempt
    /\ last.committed
    /\ call.tries = MaxAttempts
    /\ prop.opts.attempts = MaxAttempts
    /\ Gt(last.err, prop.opts.tolerance)
    /\ Gt(last.h, prop.opts.min_step)

\* C7: the step of the landing is used once: when until_time_elapsed returns
\* after a landing, the step size and the mode are those from before it.
C7_LandingStepIsOneShot ==
    (Returned /\ call.landing) =>
        /\ prop.step_size = call.pre_step
        /\ prop.fixed_step = call.pre_fixed

\* the propagator of the running call, had it been asked to go forward
Mirrored(p) == [p EXCEPT !.step_size = FAbs(@)]

\* C8: backward, min_step and max_step bound the magnitude of the step: the
\* first attempt of a backward call and that of the forward call of the same
\* configuration, on the same error, take the same decision and leave step
\* sizes of the same magnitude.
C8_BackwardUsesMagnitudes ==
    (/\ pc = "derive"
     /\ call.op = "until"
     /\ call.backprop
     /\ ncalls = 1
     /\ set_log = <<>>
     /\ call.tries = 0
     /\ ~prop.fixed_step) =>
        \A err \in ErrValues :
            LET b == DeriveAttempt(prop, call.dt, call.dx, err)
                f == DeriveAttempt(Mirrored(prop), call.dt, call.dx, err)
            IN  /\ b.done = f.done
                /\ FAbs(b.prop.step_size) = f.prop.step_size
                /\ FAbs(b.prop.details.step) = f.prop.details.step

\* C9: forward, an adaptive attempt with min_step <= h <= max_step and an
\* error at most the tolerance leaves a next step of at least 0.9 h.
C9_AcceptKeepsNineTenths ==
    (/\ AdaptiveAttempt
     /\ Le(prop.opts.min_step, last.h)
     /\ Le(last.h, prop.opts.max_step)
     /\ Le(last.err, prop.opts.tolerance)) =>
        /\ last.committed
        /\ Ge(last.next_step, Mul(F(9, 10), last.h))

\* an accepted step was followed by a smaller one
C9_Witness ==
    /\ AdaptiveAttempt
    /\ last.committed
    /\ Le(prop.opts.min_step, last.h)
    /\ Le(last.h, prop.opts.max_step)
    /\ Lt(last.err, prop.opts.tolerance)
    /\ Lt(last.next_step, last.h)

\* C10: forward, an adaptive attempt with an error above the tolerance, a
\* step above min_step and attempts left is rejected, and the step of the
\* next attempt is at least min_step and smaller than the rejected one.
C10_RejectShrinks ==
    (/\ AdaptiveAttempt
     /\ Gt(last.h, Zero)
     /\ Gt(last.err, prop.opts.tolerance)
     /\ Gt(last.h, prop.opts.min_step)
     /\ last.attempts < prop.opts.attempts) =>
        /\ ~last.committed
        /\ Le(prop.opts.min_step, last.next_step)
        /\ Lt(last.next_step, last.h)

\* a rejected step was followed by min_step, the proposed one being smaller
C10_Witness ==
    /\ AdaptiveAttempt
    /\ ~last.committed
    /\ Gt(last.h, prop.opts.min_step)
    /\ last.next_step = prop.opts.min_step
    /\ Lt(ShrinkStepUnclamped([prop EXCEPT !.step_size = last.h]),
          prop.opts.min_step)

\* C11: an adaptive attempt that commits with an error estimate of exactly 0
\* and a tolerance above 0 leaves max_step as the step of the next call.
C11_ZeroErrorGivesMaxStep ==
    (/\ AdaptiveAttempt
     /\ last.committed
     /\ last.err = Zero
     /\ Gt(prop.opts.tolerance, Zero)) =>
        last.next_step = prop.opts.max_step

\* C12: with a tableau of stages = order, every pass of derive is the only
\* one of its call: it returns t + h for the current step size h, records
\* details.step = h and attempts = 1, and leaves the step size and
\* details.error as they were, whatever the options hold.
C12_FixedTableauSingleAttempt ==
    [][(pc = "derive" /\ prop.stages = prop.order) =>
          /\ pc' # "derive"
          /\ call'.tries = 1
          /\ prop'.details.attempts = 1
          /\ Feq(call'.t, Add(call.dt, prop.step_size))
          /\ prop'.details.step = prop.step_size
          /\ prop'.step_size = prop.step_size
          /\ prop'.details.error = prop.details.error
          /\ prop'.fixed_step]_vars

\* a derive on a fixed tableau built with adaptive options has returned
C12_Witness ==
    /\ last.op = "derive"
    /\ last.committed
    /\ prop.stages = prop.order
    /\ ~prop.opts.fixed_step
    /\ prop.opts.attempts = MaxAttempts
    /\ ncalls = MaxCalls

\* the propagator has an embedded tableau and the options of with_fixed_step
FixedByOptions == prop.opts.fixed_step /\ prop.stages # prop.order

\* C13: with the options of with_fixed_step(h) and an embedded tableau,
\* going forward, every derive commits on its first attempt with
\* details.step = h, and the step size stays h, whatever the error estimate.
C13_FixedOptionsKeepStep ==
    /\ (FixedByOptions /\ AdaptiveAttempt /\ Gt(last.h, Zero)) =>
          /\ last.committed
          /\ last.attempts = 1
          /\ call.tries = 1
          /\ last.h = prop.opts.init_step
          /\ prop.details.step = last.h
          /\ prop.step_size = last.h
    /\ (FixedByOptions /\ ~prop.fixed_step
        /\ (call.op = "none" \/ ~call.backprop)) =>
          prop.step_size = prop.opts.init_step

\* the second derive in a row has committed with an error above the tolerance
C13_Witness ==
    /\ FixedByOptions
    /\ AdaptiveAttempt
    /\ last.op = "derive"
    /\ last.committed
    /\ Gt(last.err, prop.opts.tolerance)
    /\ ncalls = MaxCalls
    /\ call.entry_step = prop.opts.init_step
    /\ ~call.entry_fixed

\* C14: the options with_fixed_step, with_adaptive_step and default return,
\* whatever the arguments, have min_step <= init_step <= max_step; those of
\* with_fixed_step(step) have the three equal to step, a zero tolerance and
\* fixed_step set.
C14_OptionsAreOrdered ==
    output.fn \in {"with_fixed_step", "with_adaptive_step", "default"} =>
        /\ Le(output.value.min_step, output.value.init_step)
        /\ Le(output.value.init_step, output.value.max_step)
        /\ output.fn = "with_fixed_step" =>
              /\ output.value.min_step = input.step
              /\ output.value.max_step = input.step
              /\ output.value.init_step = input.step
              /\ output.value.tolerance = Zero
              /\ output.value.fixed_step

\* C15: when derive(t, x) returns (t', x'), details.step is t' - t and is the
\* step size its committed attempt used, and details.attempts is the number
\* of attempts the call made.
C15_DetailsDescribeTheStep ==
    (last.op # "none" /\ last.committed) =>
        /\ Feq(prop.details.step, Sub(last.t_out, last.t_in))
        /\ Feq(prop.details.step, last.h)
        /\ prop.details.attempts = call.tries

\* the call of OrbitalDynamics::eom has returned
EomReturned == output.fn = "OrbitalDynamics::eom"

\* the Jacobian dual_eom gives on the arguments of the call
Jacobian ==
    OrbitalDynamics_dual_eom(input.accel_models, input.delta_t_s,
        hyperspace_from_vector(SubSeq(input.state, 1, 6)), input.ctx).grad

\* C16: when the context carries an STM Phi, entries 6..41 of what
\* OrbitalDynamics::eom returns are A * Phi row after row, A the Jacobian:
\* entry 6 + 6 i + j is the sum over k of A[i][k] * Phi[k][j].
C16_StmDerivativeIsJacobianTimesStm ==
    (EomReturned /\ input.ctx.stm # NoStm) =>
        \A i \in 0..5, j \in 0..5 :
            output.value.value[6 + 6 * i + j + 1]
                = RowByColumn(Jacobian, input.ctx.stm, i + 1, j + 1, 1)

\* the accelerations of the models on the orbit, summed from the last model
RECURSIVE SumOfModels(_, _, _)
SumOfModels(accel_models, osc, i) ==
    IF i = 0 THEN Zeros(3)
    ELSE VAdd(PointMasses_eom(accel_models[i], osc).acc,
              SumOfModels(accel_models, osc, i - 1))

\* the orbit of the context at the first six entries, delta_t_s later
Rebuilt ==
    OrbitOf(SubSeq(input.state, 1, 3), SubSeq(input.state, 4, 6),
            input.ctx.dt + input.delta_t_s, input.ctx.stm)

TwoBody(osc) ==
    VScale(Div(Neg(osc.frame.gm), Powi3(VNorm(osc.radius))), osc.radius)

\* C17: when the context carries no STM, OrbitalDynamics::eom returns 42
\* entries: the velocity, then the two-body acceleration plus the sum of the
\* accelerations of the models on the rebuilt orbit, in any order, then 36
\* zeros.
C17_NoStmDerivative ==
    (EomReturned /\ input.ctx.stm = NoStm) =>
        LET d_x == output.value.value
        IN  /\ Len(d_x) = 42
            /\ SubSeq(d_x, 1, 3) = SubSeq(input.state, 4, 6)
            /\ SubSeq(d_x, 4, 6)
                 = VAdd(TwoBody(Rebuilt),
                        SumOfModels(input.accel_models, Rebuilt,
                                    Len(input.accel_models)))
            /\ \A n \in 7..42 : d_x[n] = Zero

\* two models pulled on an orbit rebuilt at a later epoch
C17_Witness ==
    /\ EomReturned
    /\ input.ctx.stm = NoStm
    /\ Len(input.accel_models) = 2
    /\ input.delta_t_s = 1
    /\ SubSeq(input.state, 1, 3) # input.ctx.radius
    /\ SubSeq(output.value.value, 4, 6) # TwoBody(Rebuilt)

\* the context with the STM slot set if it was empty, empty if it was set
OtherPath ==
    [input.ctx EXCEPT !.stm = IF @ = NoStm THEN Identity(6) ELSE NoStm]

\* C18: the path with an STM and the path without give the same entries
\* 0..5 on the same delta_t_s, the same first six entries and contexts that
\* differ in the STM slot only, whatever the models.
C18_BothPathsSameDerivative ==
    EomReturned =>
        SubSeq(output.value.value, 1, 6)
            = SubSeq(OrbitalDynamics_eom(input.accel_models, input.delta_t_s,
                                         input.state, OtherPath).value, 1, 6)

\* the bodies of the list that are not the centre of the frame
WithoutCentre(pm, frame) ==
    [pm EXCEPT !.bodies = SelectSeq(@, LAMBDA b : b # frame)]

\* C19: a body of the list that is the frame of the orbit adds nothing and is
\* not looked up: eom and dual_eom return what they return with that body
\* taken out of the list, zero when every body of the list is the centre.
C19_CentreIsSkipped ==
    /\ output.fn = "PointMasses::eom" =>
          /\ output.value
               = PointMasses_eom(WithoutCentre(input.pm, input.osc.frame),
                                 input.osc)
          /\ \A q \in 1..Len(output.value.queries) :
                output.value.queries[q][1] # input.osc.frame.ephem_path
          /\ WithoutCentre(input.pm, input.osc.frame).bodies = <<>> =>
                output.value.acc = Zeros(3)
    /\ output.fn = "PointMasses::dual_eom" =>
          /\ output.value
               = PointMasses_dual_eom(
                     WithoutCentre(input.pm, input.osc.frame),
                     hyperspace_from_vector(input.osc.radius), input.osc)
          /\ \A q \in 1..Len(output.value.queries) :
                output.value.queries[q][1] # input.osc.frame.ephem_path
          /\ WithoutCentre(input.pm, input.osc.frame).bodies = <<>> =>
                /\ output.value.acc = Zeros(3)
                /\ output.value.grad = MatZeros(3)

\* dual_eom has returned on a list that holds the centre and another body
C19_Witness ==
    /\ output.fn = "PointMasses::dual_eom"
    /\ \E i \in 1..Len(input.pm.bodies) : input.pm.bodies[i] = input.osc.frame
    /\ Len(output.value.queries) = 2
    /\ output.value.grad # MatZeros(3)

\* C20: in the Legendre table Harmonics::eom builds, for every degree N and
\* order M <= N and every direction, A[n][m] is 0 for every m > n of the
\* table and A[n][n] > 0 for every 0 <= n <= N + 2, once the diagonal, the
\* sub-diagonal and the column-fill passes have run.
C20_LegendreTableIsLowerTriangular ==
    output.fn = "Harmonics::eom" =>
        LET N == input.h.stor.max_degree
            A == output.value.a_matrix
        IN  /\ DOMAIN A = 0..N + 2
            /\ \A n \in 0..N + 2 :
                  /\ DOMAIN A[n] = 0..N + 2
                  /\ A[n][n] > 0
                  /\ \A m \in 0..N + 2 : m > n => A[n][m] = 0

\* the three passes have written entries under the diagonal of a table of
\* the largest degree and order, for a position off the equator
C20_Witness ==
    /\ output.fn = "Harmonics::eom"
    /\ input.h.stor.max_degree = MaxDegree
    /\ input.h.stor.max_order = MaxDegree
    /\ input.state[3] # 0
    /\ output.value.a_matrix[1][0] # 0
    /\ output.value.a_matrix[2][1] # 0
    /\ output.value.a_matrix[MaxDegree + 1][MaxDegree - 1] # 0

\* C21: is_diagonal(m) is true if and only if the 3x3 matrix m is diagonal:
\* each of its six entries off the diagonal is zero within f64::EPSILON.
C21_IsDiagonalIffOffDiagonalZero ==
    output.fn = "is_diagonal" =>
        (output.value
           <=> \A i \in 0..2, j \in 0..2 :
                  i # j => Le(FAbs(input.m[i][j]), EPSILON))

\* what the consumer holds and what is still in the channel is what the
\* propagator published, in the order of publication
NothingLostOrReordered == threads.received \o chan.queue = set_log

\* the loop of the consumer ends only after the propagation returned, with
\* every published state, the returned one last
EndsWithEverything ==
    threads.consumer = "finished" =>
        /\ threads.producer = "finished"
        /\ threads.received = set_log
        /\ ret.op = "until"
        /\ threads.received # <<>>
        /\ threads.received[Len(threads.received)] = <<ret.t, ret.state>>

Range(from, to) == [n \in 1..(to - from + 1) |-> from + n - 1]

\* the sum of the coefficients a[from] .. a[to], indices counted from 0
RECURSIVE SumOfCoefficients(_, _, _)
SumOfCoefficients(a, from, to) ==
    IF from > to THEN Zero
    ELSE Add(SumOfCoefficients(a, from, to - 1), a[to + 1])

\* C23: each attempt of derive evaluates the dynamics stages times; stage i,
\* 2 <= i <= stages, reads the i - 1 coefficients a_coeffs[(i-1)(i-2)/2] ..
\* a_coeffs[i(i-1)/2 - 1] and takes their sum as c_i, so an attempt reads
\* stages (stages - 1) / 2 coefficients, from index 0 on every retry.
C23_StagesReadTriangularRows ==
    output.fn = "derive" =>
        \A n \in 1..Len(output.value.attempts) :
            LET pass == output.value.attempts[n]
                stages == input.p.stages
            IN  /\ Len(pass.k) = stages
                /\ Len(pass.calls) = stages - 1
                /\ pass.a_idx = (stages * (stages - 1)) \div 2
                /\ \A i \in 2..stages :
                      LET from == ((i - 1) * (i - 2)) \div 2
                          to == (i * (i - 1)) \div 2 - 1
                          c_i == SumOfCoefficients(input.p.a_coeffs, from, to)
                      IN  /\ pass.calls[i - 1].read = Range(from, to)
                          /\ pass.calls[i - 1].ci = c_i
                          /\ pass.calls[i - 1].t
                               = Add(input.t, Mul(c_i, pass.step_size))

\* a call of derive on four stages that retried
C23_Witness ==
    /\ output.fn = "derive"
    /\ input.p.stages = 4
    /\ Len(output.value.attempts) >= 2
    /\ output.value.attempts[2].calls[3].read = <<3, 4, 5>>

\* the pairs (n, m) Harmonics::eom reads the coefficients of
PairsRead(stor) ==
    {<<n, m>> \in (1..stor.max_degree) \X (0..stor.max_order) : m <= n}

\* what the pair (n, m) adds to the four sums of degree n
TermOf(h, tab, n, m) ==
    LET c_val == cs_nm(h.stor, n, m)[1]
        s_val == cs_nm(h.stor, n, m)[2]
        d_ == FxMul(FxMul(c_val, tab.re[m]) + FxMul(s_val, tab.im[m]),
                    tab.sqrt2)
        e_ == IF m = 0 THEN 0
              ELSE FxMul(FxMul(c_val, tab.re[m - 1])
                           + FxMul(s_val, tab.im[m - 1]), tab.sqrt2)
        f_ == IF m = 0 THEN 0
              ELSE FxMul(FxMul(s_val, tab.re[m - 1])
                           - FxMul(c_val, tab.im[m - 1]), tab.sqrt2)
    IN  <<FxMul(FxMul(Fx(m, 1), tab.a_matrix[n][m]), e_),
          FxMul(FxMul(Fx(m, 1), tab.a_matrix[n][m]), f_),
          FxMul(FxMul(tab.vr01[n][m], tab.a_matrix[n][m + 1]), d_),
          FxMul(FxMul(tab.vr11[n][m], tab.a_matrix[n + 1][m + 1]), d_)>>

\* the q-th sum of degree n over the orders m, m - 1, .. 0, the pairs with
\* coefficients (0, 0) left out
RECURSIVE SumWithoutZeroPairs(_, _, _, _, _)
SumWithoutZeroPairs(h, tab, n, m, q) ==
    IF m < 0 THEN 0
    ELSE SumWithoutZeroPairs(h, tab, n, m - 1, q)
           + (IF cs_nm(h.stor, n, m) = <<0, 0>> THEN 0
              ELSE TermOf(h, tab, n, m)[q])

\* (mu / r) rho^(n + 1), as the code builds it
RECURSIVE RhoPower(_, _, _)
RhoPower(h, tab, n) ==
    IF n = 0 THEN FxMul(FxDiv(-h.neg_mu, tab.r_), FxDiv(h.body_radius, tab.r_))
    ELSE FxMul(RhoPower(h, tab, n - 1), FxDiv(h.body_radius, tab.r_))

\* the q-th of a1 .. a4 over the degrees n, n - 1, .. 1, the pairs with
\* coefficients (0, 0) left out
RECURSIVE AccelerationWithoutZeroPairs(_, _, _, _)
AccelerationWithoutZeroPairs(h, tab, n, q) ==
    IF n < 1 THEN 0
    ELSE AccelerationWithoutZeroPairs(h, tab, n - 1, q)
           + (IF q = 4 THEN -1 ELSE 1)
               * FxMul(FxDiv(RhoPower(h, tab, n), h.body_radius),
                       SumWithoutZeroPairs(h, tab, n,
                                           Min(n, h.stor.max_order), q))

\* C24: in Harmonics::eom a pair (n, m) with coefficients (0, 0) adds
\* nothing: the acceleration is the one computed with the pair left out of
\* the sums, the zero vector when every coefficient read is zero, and
\* entries 0..2 of the 6-vector returned are zero.
C24_ZeroCoefficientsAddNothing ==
    output.fn = "Harmonics::eom" =>
        LET h == input.h
            tab == Harmonics_tables(h, input.state)
            N == h.stor.max_degree
            a1 == AccelerationWithoutZeroPairs(h, tab, N, 1)
            a2 == AccelerationWithoutZeroPairs(h, tab, N, 2)
            a3 == AccelerationWithoutZeroPairs(h, tab, N, 3)
            a4 == AccelerationWithoutZeroPairs(h, tab, N, 4)
            d_x == output.value.value
        IN  /\ Len(d_x) = 6
            /\ SubSeq(d_x, 1, 3) = <<0, 0, 0>>
            /\ SubSeq(d_x, 4, 6)
                 = <<a1 + FxMul(a4, tab.s_), a2 + FxMul(a4, tab.t_),
                     a3 + FxMul(a4, tab.u_)>>
            /\ (\A nm \in PairsRead(h.stor) :
                    cs_nm(h.stor, nm[1], nm[2]) = <<0, 0>>)
                  => d_x = <<0, 0, 0, 0, 0, 0>>

\* a field with a pair of coefficients (0, 0) among pairs that pull
C24_Witness ==
    /\ output.fn = "Harmonics::eom"
    /\ input.h.stor.max_degree >= 2
    /\ input.h.stor.max_order >= 2
    /\ cs_nm(input.h.stor, 2, 1) = <<0, 0>>
    /\ cs_nm(input.h.stor, 2, 2) # <<0, 0>>
    /\ cs_nm(input.h.stor, 1, 1) # <<0, 0>>
    /\ output.value.value[4] # 0
    /\ output.value.value[6] # 0

\* x lies from y on in the direction of the running call
Ahead(x, y) == IF call.backprop THEN Lt(x, y) ELSE Gt(x, y)

\* the running call cannot return: outside the landing a fixed step stays
\* what it is, and this one does not lead towards the stop time
NeverReturns ==
    /\ pc = "derive"
    /\ call.op = "until"
    /\ ~call.landing
    /\ prop.fixed_step
    /\ ~Ahead(prop.step_size, Zero)

\* C25: in any sequence of calls of until_time_elapsed on one propagator,
\* forward or backward after forward or backward, landing on the stop time
\* or not, every call terminates and every step taken inside a call moves
\* the time in the direction of the elapsed time of the call.
C25_EveryCallMovesItsWayAndEnds ==
    (call.op = "until" /\ call.elapsed_time # Zero) =>
        /\ ~NeverReturns
        /\ (last.op = "until" /\ last.committed) =>
               Ahead(last.t_out, last.t_in)

\* C26: going forward with an adaptive step, from options with min_step <=
\* init_step <= max_step, the step size kept for the next attempt lies
\* between min_step and max_step after every pass of derive, rejected or
\* accepted, whatever the errors.
C26_ForwardStepStaysInBounds ==
    (/\ output.fn = "derive"
     /\ ~input.p.fixed_step
     /\ Le(input.p.opts.min_step, input.p.opts.init_step)
     /\ Le(input.p.opts.init_step, input.p.opts.max_step)) =>
        LET opts == input.p.opts
            InBounds(step) == Le(opts.min_step, step) /\ Le(step, opts.max_step)
        IN  /\ \A n \in 1..Len(output.value.attempts) :
                   InBounds(output.value.attempts[n].step_size)
            /\ InBounds(output.value.prop.step_size)

\* the times passed to set_state since the entry of the running call, after
\* the time the call started from
TimesOfCall ==
    <<call.init_seconds>> \o [n \in 1..Len(set_log) |-> set_log[n][1]]

\* C27: within one call of until_time_elapsed, forward or backward, the
\* times published go strictly in the direction of the call, starting from
\* the time of the entry: no time is published twice and no step of length
\* zero is taken, a step that lands exactly on the stop time included.
C27_PublishedTimesStrictlyMonotone ==
    call.op = "until" =>
        \A n \in 1..Len(set_log) :
            Ahead(TimesOfCall[n + 1], TimesOfCall[n])

\* no pair of the log lies beyond the stop time of the running call, and
\* none is the pair (t, state)
KeepsOut(log, t, state) ==
    \A n \in 1..Len(log) :
        /\ ~Ahead(log[n][1], call.stop_time)
        /\ log[n] # <<t, state>>

\* the landing derive is about to start: call.t and call.state still hold
\* the candidate that overshot
AboutToLand ==
    /\ call.op = "until"
    /\ call.landing
    /\ pc = "derive"
    /\ call.tries = 0

\* C28: the candidate of a step that overshoots the stop time is discarded:
\* it is passed neither to set_state nor to the sink, the landing step is
\* integrated from the last published time and state, and no published time
\* lies beyond the stop time in the direction of the call.
C28_OvershootIsDiscarded ==
    /\ call.op = "until" =>
           /\ \A n \in 1..Len(set_log) : ~Ahead(set_log[n][1], call.stop_time)
           /\ \A n \in 1..Len(sent_log) : ~Ahead(sent_log[n][1], call.stop_time)
    /\ AboutToLand =>
           /\ Ahead(call.t, call.stop_time)
           /\ KeepsOut(set_log, call.t, call.state)
           /\ KeepsOut(sent_log, call.t, call.state)
           /\ call.dt = dynamics.time
           /\ call.dx = dynamics.state
           /\ IF set_log = <<>>
              THEN dynamics.time = call.init_seconds
              ELSE set_log[Len(set_log)] = <<dynamics.time, dynamics.state>>

\* a call that published two steps to the dynamics and the sink, discarded
\* a third and is about to land on the stop time
C28_Witness ==
    /\ AboutToLand
    /\ Len(set_log) = 2
    /\ sent_log = set_log
    /\ Ahead(call.t, call.stop_time)
    /\ Ahead(call.stop_time, dynamics.time)

\* the tables have max_degree + 3 rows of max_degree + 3 entries, the
\* vectors max_degree + 3 entries
Allocated(max_degree) ==
    {At(table, n, m) : table \in {"a_matrix", "vr01", "vr11"},
                       n \in 0..max_degree + 2, m \in 0..max_degree + 2}
    \cup {AtVector(vector, m) : vector \in {"re", "im"},
                                m \in 0..max_degree + 2}

\* C29: for every maximum degree N and maximum order M with 0 <= M <= N,
\* every index Harmonics::eom uses on a_matrix, vr01, vr11, re and im, in the
\* zero fill, the recursions and the sums, lies inside the (N + 3) x (N + 3)
\* tables and the (N + 3)-long vectors.
C29_EveryIndexIsAllocated ==
    (/\ output.fn = "Harmonics::eom"
     /\ input.h.stor.max_order <= input.h.stor.max_degree) =>
        output.value.indices \subseteq Allocated(input.h.stor.max_degree)

\* eom ran on a field of degree and order 2 and used the last row and the
\* last column of the Legendre table and entry max_order + 1 of re
C29_Witness ==
    /\ output.fn = "Harmonics::eom"
    /\ input.h.stor.max_degree = 2
    /\ input.h.stor.max_order = 2
    /\ At("a_matrix", 4, 4) \in output.value.indices
    /\ At("a_matrix", 3, 3) \in output.value.indices
    /\ AtVector("re", 3) \in output.value.indices

\* C30: with an STM in the context, what OrbitalDynamics::eom returns depends
\* on delta_t_s, entries 0..5 of the vector and the context only: vectors
\* that agree on entries 0..5 and differ on entries 6..41 give the same
\* output, the STM derivative being formed from the STM of the context.
C30_StmEntriesOfVectorAreIgnored ==
    (EomReturned /\ input.ctx.stm # NoStm) =>
        \A entries \in StmEntries :
            OrbitalDynamics_eom(input.accel_models, input.delta_t_s,
                                SubSeq(input.state, 1, 6) \o entries,
                                input.ctx) = output.value

\* eom returned a non-zero STM derivative, formed from the drift of the
\* context, on a vector that carries zeros for an STM, with two models
C30_Witness ==
    /\ EomReturned
    /\ input.ctx.stm = Drift
    /\ Len(input.accel_models) = 2
    /\ SubSeq(input.state, 7, 42) = Zeros(36)
    /\ SubSeq(output.value.value, 7, 42) # Zeros(36)
    /\ SubSeq(output.value.value, 7, 42)
         = Flatten(MatMul(Drift, Jacobian))
=============================================================================
